---- MODULE Spec2Model ----
(***************************************************************************)
(* Model of the Mini-Arima model orchestration and availability engine:    *)
(* the health registry kept in GLOBAL_CACHE["model_status"] (a cachetools  *)
(* TTLCache), the prober that refreshes it, the quota ledger (the requests *)
(* table), limit resolution, and the request handlers that use them.       *)
(*                                                                         *)
(* Three specifications share the variables:                               *)
(*   SpecRegistry  the registry, runtime failures and probe rounds         *)
(*   SpecLimits    get_user_level / get_user_limits over stored profiles   *)
(*   SpecQuota     the request handlers running concurrently               *)
(***************************************************************************)
EXTENDS Integers, Sequences, FiniteSets, TLC

(***************************************************************************)
(* Bounds of the model.                                                    *)
(***************************************************************************)
\* number of clock ticks the registry specification lets pass
MaxTicks == 2
\* number of probe rounds the registry specification lets start
MaxRounds == 1
\* number of updates of the user the handler specification lets arrive
MaxEvents == 2
\* number of midnights (MSK) the handler specification lets pass
MaxDays == 1

(***************************************************************************)
(* Program constants.                                                      *)
(***************************************************************************)
\* bot.py:30  TTLCache(maxsize=1, ttl=600)
STATUS_MAXSIZE == 1
STATUS_TTL == 600
\* startup_model_check's freshness threshold, timedelta(minutes=10), in seconds
FRESH_SECONDS == 600
\* one clock tick of the model: half the registry's time-to-live
TickStep == STATUS_TTL \div 2

\* config.py:47-48, 56, 67: the models the model keeps of the configured sets
MAX_MODE_PARTICIPANTS == <<"grok-3", "gpt-4.1">>
MAX_MODE_ARBITER == "deepseek-r1-0528"
TextModels == {"grok-3", "gpt-4.1", "deepseek-r1-0528"}
IMAGE_MODELS == {"gpt-image-1"}
\* what scheduled_model_test probes
ProbedModels == TextModels \cup IMAGE_MODELS
\* an identifier no probe round covers (add_request's model name for Max Mode)
UnprobedModel == "max_mode_ensemble"
AllModelIds == ProbedModels \cup {UnprobedModel}

\* config.py:22: the administrators, and the users the model follows
ADMIN_IDS == {"admin"}
Users == {"admin", "user"}

\* config.py:72-78: tier -> (daily normal quota, daily Max Mode quota)
LIMITS == [level \in 0..3 |->
             CASE level = 0 -> [daily |-> 3, max_mode |-> 0]
               [] level = 1 -> [daily |-> 40, max_mode |-> 0]
               [] level = 2 -> [daily |-> 100, max_mode |-> 0]
               [] level = 3 -> [daily |-> 100, max_mode |-> 5]]
REWARD_LIMIT == 7

\* bot.py:31  TTLCache(maxsize=1000, ttl=300)
USER_MAXSIZE == 1000
USER_TTL == 300
\* config.py:42-43
DEFAULT_TEXT_MODEL == "chatgpt-4o-latest"
DEFAULT_IMAGE_MODEL == "gpt-image-1"

\* the handler of the user whose updates the handler specification follows, and
\* the tasks that handle two of that user's updates at the same time
TheUser == "user"
Procs == {"h1", "h2"}

\* the statuses test_chat_model / test_image_model return
ProbeStatuses == {"OK", "Timeout"}

VARIABLES
    model_status,    \* GLOBAL_CACHE["model_status"]: the TTLCache's entries, oldest first
    now,             \* seconds on the cache timer since process start
    probe_pc,        \* where the probe round (scheduled_model_test) stands
    probe_results,   \* results gathered by the probe round in flight: model -> status
    system_state,    \* the system_state table: key -> row, or NoRow
    rounds,          \* history: probe rounds started so far
    just_applied,    \* history: a probe round's results were applied and nothing ran since
    users,           \* the users table: user_id -> row, or NoRow
    limits_call,     \* history: the last get_user_limits call, its input row and its result
    requests,        \* the requests table: its rows in insertion order
    today,           \* the calendar day in MSK, counted from the start
    throttle,        \* ThrottlingMiddleware.cache: the users with a live antiflood entry
    fsm,             \* the FSM context of the user's private chat: state and data
    user_details,    \* GLOBAL_CACHE["user_details"]: the TTLCache's entries
    handlers,        \* the handler tasks: position and local variables
    events,          \* history: updates of the user that arrived so far
    ledger,          \* history: add_request calls completed, per day and mode
    avail_call,      \* history: the last are_max_mode_models_available call and its result
    ens,             \* one Max Mode request: get_max_mode_response and its caller
    boot,            \* startup_model_check: its position and what it read
    late_failed,     \* history: (model, round) marked failed after that round probed it
    cache_call,      \* history: per user, the last get_user_details_cached call
    card,            \* history: the last admin view (user card or statistics) shown
    animation_task,  \* per request handler: its position and its animate_waiting task
    job,             \* the scheduler's interval job and how its last run ended
    level_call,      \* per user: the get_user_level call in flight and the row it read
    turn,            \* one request from its indicator message to its final reply
    fsm_history      \* the 'history' entry of the private chat's FSM data

regVars == <<model_status, now, probe_pc, probe_results, system_state, rounds, just_applied>>

limVars == <<users, limits_call>>

quotaVars == <<requests, today, throttle, fsm, user_details, handlers, events, ledger>>

vars == <<model_status, now, probe_pc, probe_results, system_state, rounds, just_applied,
          users, limits_call,
          requests, today, throttle, fsm, user_details, handlers, events, ledger,
          avail_call, ens, boot, late_failed, cache_call, card, animation_task, job, level_call,
          turn, fsm_history>>

\* the variables of the specifications of single functions
sessVars == <<level_call, turn, fsm_history>>
taskVars == <<animation_task, job, sessVars>>
callVars == <<cache_call, card, taskVars>>
caseVars == <<avail_call, ens, boot, late_failed, callVars>>

\* what each specification leaves alone
notRegVars == <<limVars, quotaVars, caseVars>>
notLimVars == <<regVars, quotaVars, caseVars>>
\* what no handler step writes
proberVars == <<now, probe_pc, probe_results, system_state, rounds, just_applied, limits_call,
                caseVars>>

NoRow == [present |-> FALSE]
EmptyDict == [m \in {} |-> "OK"]

(***************************************************************************)
(* cachetools.TTLCache, as GLOBAL_CACHE uses it.  A cache is the sequence  *)
(* of its entries in link order (oldest first); an entry is gone for every *)
(* reader once the timer reaches its expiry.                               *)
(***************************************************************************)
CacheLive(c, t) == SelectSeq(c, LAMBDA e : t < e.expires)

CacheHas(c, k, t) == \E i \in 1..Len(c) : c[i].key = k /\ t < c[i].expires

CacheGet(c, k, t, default) ==
    IF CacheHas(c, k, t)
    THEN (CHOOSE e \in {c[i] : i \in 1..Len(c)} : e.key = k /\ t < e.expires).value
    ELSE default

RECURSIVE DropOldest(_, _)
DropOldest(c, n) == IF n <= 0 \/ c = <<>> THEN c ELSE DropOldest(Tail(c), n - 1)

\* TTLCache.__setitem__: expire, make room by popping the oldest entries when
\* the key is new, store, and move the key's link to the end with a new expiry
CacheSet(c, k, v, t, ttl, maxsize) ==
    LET live == CacheLive(c, t)
        entry == [key |-> k, value |-> v, expires |-> t + ttl]
    IN  IF \E i \in 1..Len(live) : live[i].key = k
        THEN SelectSeq(live, LAMBDA e : e.key # k) \o <<entry>>
        ELSE DropOldest(live, Len(live) + 1 - maxsize) \o <<entry>>

(***************************************************************************)
(* system_service.py: the registry's readers and writers.                  *)
(***************************************************************************)
DictGet(d, k, default) == IF k \in DOMAIN d THEN d[k] ELSE default

DictPut(d, k, v) == [x \in (DOMAIN d) \cup {k} |-> IF x = k THEN v ELSE d[x]]

Statuses(c, t) == CacheGet(c, "statuses", t, EmptyDict)

StatusDefaultClosed(c, m, t) == DictGet(Statuses(c, t), m, "FAILED") = "OK"

is_model_available(c, m, t) == DictGet(Statuses(c, t), m, "OK") = "OK"

set_model_failed_in_cache(c, m, t) ==
    LET statuses == Statuses(c, t)
    IN  IF DictGet(statuses, m, "None") # "FAILED"
        THEN CacheSet(c, "statuses", DictPut(statuses, m, "FAILED"), t,
                      STATUS_TTL, STATUS_MAXSIZE)
        ELSE c

\* the report text of scheduled_model_test: the working models, the failed
\* ones with their status, and the time stamp
ReportText(results, t) ==
    [working |-> {m \in DOMAIN results : results[m] = "OK"},
     failed |-> {<<m, results[m]>> : m \in {x \in DOMAIN results : results[x] # "OK"}},
     timestamp |-> t]

\* lines 120-123: the two writes of the probe round into the cache
ApplyProbeResults(c, results, t) ==
    CacheSet(CacheSet(c, "statuses", results, t, STATUS_TTL, STATUS_MAXSIZE),
             "last_report", ReportText(results, t), t, STATUS_TTL, STATUS_MAXSIZE)

\* json.dumps of a statuses dict, a stored text that is no JSON document, and
\* json.loads, which raises JSONDecodeError on the latter
json_dumps(d) == [json |-> TRUE, doc |-> d]
Unparseable == [json |-> FALSE, doc |-> EmptyDict]
json_loads(v) == [ok |-> v.json, value |-> v.doc]

\* the updated_at column: sqlite3 stores the aware datetime as its ISO text,
\* datetime.fromisoformat reads it back and raises ValueError on other text
isoformat(t) == [iso |-> TRUE, t |-> t]
BadTimestamp == [iso |-> FALSE, t |-> 0]
fromisoformat(x) == [ok |-> x.iso, value |-> x.t]

set_system_state(tbl, k, v, t) ==
    [tbl EXCEPT ![k] = [present |-> TRUE, value |-> v, updated_at |-> isoformat(t)]]

(***************************************************************************)
(* database.py: the users table.  subscription_end is kept relative to the *)
(* present: "none" (NULL), "future", or "past".                            *)
(***************************************************************************)
\* add_user: the row INSERT INTO users (user_id, username, created_at) makes
NewUserRow ==
    [present |-> TRUE, level |-> 0, sub_end |-> "none", blocked |-> FALSE,
     verified |-> FALSE, bonus |-> FALSE, last_model |-> "none",
     last_image_model |-> "none"]

add_user(tbl, u) == IF tbl[u].present THEN tbl ELSE [tbl EXCEPT ![u] = NewUserRow]

\* UPDATE users SET subscription_level = ?, subscription_end = ?: the end is the
\* present moment for level 0 (past for every later reader), else 30 days ahead
update_subscription(tbl, u, level) ==
    IF tbl[u].present
    THEN [tbl EXCEPT ![u].level = level,
                     ![u].sub_end = IF level = 0 THEN "past" ELSE "future"]
    ELSE tbl

set_reward_bonus(tbl, u) ==
    IF tbl[u].present THEN [tbl EXCEPT ![u].bonus = TRUE] ELSE tbl

(***************************************************************************)
(* user_service.py: limit resolution.  A limit is a number or unlimited    *)
(* (float('inf')).                                                         *)
(***************************************************************************)
Unlimited == [inf |-> TRUE, n |-> 0]
Limit(k) == [inf |-> FALSE, n |-> k]

\* a plausible slip: the comparison off by one
LimitReachedStrict(count, limit) == ~limit.inf /\ count > limit.n

\* requests_today >= limit
LimitReached(count, limit) == ~limit.inf /\ count >= limit.n

\* a plausible slip: the stored level, without the test of subscription_end
get_user_level_stored(tbl, u) ==
    IF u \in ADMIN_IDS THEN [level |-> 3, users |-> tbl]
    ELSE IF ~tbl[u].present THEN [level |-> 0, users |-> tbl]
    ELSE [level |-> tbl[u].level, users |-> tbl]

\* the level and the table after the lazy downgrade write
get_user_level(tbl, u) ==
    IF u \in ADMIN_IDS THEN [level |-> 3, users |-> tbl]
    ELSE IF ~tbl[u].present THEN [level |-> 0, users |-> tbl]
    ELSE IF tbl[u].sub_end # "none" /\ tbl[u].level > 0 /\ tbl[u].sub_end = "past"
         THEN [level |-> 0, users |-> update_subscription(tbl, u, 0)]
         ELSE [level |-> tbl[u].level, users |-> tbl]

\* a plausible slip: the bonus override applied whatever the level
LimitsBonusAnyTier(tbl, u) ==
    LET lv == get_user_level(tbl, u)
    IN  IF u \in ADMIN_IDS
        THEN [daily |-> Unlimited, max_mode |-> Unlimited, users |-> lv.users]
        ELSE IF lv.users[u].present /\ lv.users[u].bonus
        THEN [daily |-> Limit(REWARD_LIMIT), max_mode |-> Limit(0), users |-> lv.users]
        ELSE [daily |-> Limit(LIMITS[lv.level].daily),
              max_mode |-> Limit(LIMITS[lv.level].max_mode), users |-> lv.users]

get_user_limits(tbl, u) ==
    LET lv == get_user_level(tbl, u)
    IN  IF u \in ADMIN_IDS
        THEN [daily |-> Unlimited, max_mode |-> Unlimited, users |-> lv.users]
        ELSE IF lv.level = 0 /\ lv.users[u].present /\ lv.users[u].bonus
        THEN [daily |-> Limit(REWARD_LIMIT), max_mode |-> Limit(0), users |-> lv.users]
        ELSE [daily |-> Limit(LIMITS[lv.level].daily),
              max_mode |-> Limit(LIMITS[lv.level].max_mode), users |-> lv.users]

InitUsers ==
    /\ users = [u \in Users |-> NoRow]
    /\ limits_call = [made |-> FALSE]

(***************************************************************************)
(* database.py: the requests table (the quota ledger).                     *)
(***************************************************************************)
Modes == {FALSE, TRUE}

\* a plausible slip: a count that forgets the request_date column
CountAnyDay(reqs, u, day, is_max_mode) ==
    Cardinality({i \in 1..Len(reqs) :
                    reqs[i].user_id = u /\ reqs[i].is_max_mode = is_max_mode})

\* SELECT COUNT(*) FROM requests WHERE user_id = ? AND request_date = ? AND is_max_mode = ?
get_user_requests_today(reqs, u, day, is_max_mode) ==
    Cardinality({i \in 1..Len(reqs) :
                    /\ reqs[i].user_id = u
                    /\ reqs[i].request_date = day
                    /\ reqs[i].is_max_mode = is_max_mode})

\* a plausible slip: a ledger keyed by (user, day, mode) that keeps one row per key
AddRequestOncePerKey(reqs, u, model, day, is_max_mode) ==
    IF get_user_requests_today(reqs, u, day, is_max_mode) > 0
    THEN reqs
    ELSE Append(reqs, [user_id |-> u, model |-> model, request_date |-> day,
                       is_max_mode |-> is_max_mode])

\* INSERT INTO requests (user_id, model, request_date, is_max_mode)
add_request(reqs, u, model, day, is_max_mode) ==
    Append(reqs, [user_id |-> u, model |-> model, request_date |-> day,
                  is_max_mode |-> is_max_mode])

RECURSIVE Rows(_, _, _, _)
\* n rows of user u under day 0 in one mode
Rows(u, model, is_max_mode, n) ==
    IF n <= 0 THEN <<>>
    ELSE Append(Rows(u, model, is_max_mode, n - 1),
                [user_id |-> u, model |-> model, request_date |-> 0,
                 is_max_mode |-> is_max_mode])

(***************************************************************************)
(* middlewares.py, system_service.py and the FSM context: what the         *)
(* handlers read before they admit a request.                              *)
(***************************************************************************)
\* a plausible slip: no antiflood at all
ThrottleOff(th, u) == TRUE

\* ThrottlingMiddleware.__call__: the update goes on iff the user has no live entry
ThrottleAdmits(th, u) == u \notin th

MaxModeModels == {MAX_MODE_PARTICIPANTS[i] : i \in 1..Len(MAX_MODE_PARTICIPANTS)}
                    \cup {MAX_MODE_ARBITER}

\* a plausible slip: the pre-flight check forgets the arbiter
ParticipantsOnlyAvailable(c, t) ==
    \A i \in 1..Len(MAX_MODE_PARTICIPANTS) : is_model_available(c, MAX_MODE_PARTICIPANTS[i], t)

\* a plausible slip: one available model is enough
AnyMaxModeModelAvailable(c, t) ==
    \E m \in MaxModeModels : is_model_available(c, m, t)

\* all(is_model_available(m) for m in MAX_MODE_PARTICIPANTS + [MAX_MODE_ARBITER])
are_max_mode_models_available(c, t) ==
    \A m \in MaxModeModels : is_model_available(c, m, t)

\* user_cache[user_id] if cached, else db.get_user_details and a cache fill
\* reads counts the db.get_user_details calls made
get_user_details_cached(c, tbl, u, t) ==
    IF CacheHas(c, u, t)
    THEN [details |-> CacheGet(c, u, t, NoRow), cache |-> c, reads |-> 0]
    ELSE [details |-> tbl[u],
          cache |-> IF tbl[u].present
                    THEN CacheSet(c, u, tbl[u], t, USER_TTL, USER_MAXSIZE)
                    ELSE c,
          reads |-> 1]

\* del user_cache[user_id]
invalidate_user_cache(c, u) == SelectSeq(c, LAMBDA e : e.key # u)

\* the handler kinds and the mode each one charges
Kinds == {"chat", "select", "group_text", "group_image", "image", "max_activate", "max_msg"}
MaxKinds == {"max_activate", "max_msg"}
ImageKinds == {"image", "group_image"}
SelectableModels == {"gpt-4.1"}

\* the router filters: a private message goes to the handler of the FSM state,
\* callbacks and group triggers do not depend on it
Routed(kind, f) ==
    CASE kind = "chat" -> f.state = "Chat"
      [] kind = "max_msg" -> f.state = "MaxMode"
      [] kind = "image" -> f.state = "ImageGen_prompt"
      [] OTHER -> TRUE

\* the outcomes of a backend call: chat.completions.create (a reply, APIError
\* incl. timeout, any other exception), the image POST (200 with a url, another
\* status, an exception incl. a 200 whose body has no url)
TextOutcomes == {"ok", "api_error", "other_error"}
ImageOutcomes == {"ok", "non200", "exception"}

\* a plausible slip: everything that is not an exception counts as a success
CallSucceededLoose(kind, o) == o \notin {"api_error", "other_error", "exception"}

\* the try block runs through to add_request
CallSucceeded(kind, o) ==
    o = "ok"

\* a plausible slip: every add_request is written with the default is_max_mode
RecordedModeDefault(kind) == FALSE

\* the is_max_mode argument of the handler's add_request: True in
\* handle_max_mode_message, False at every other call site
RecordedMode(kind) == kind \in MaxKinds

\* the handler tasks at rest, an empty ledger
IdleHandler ==
    [pc |-> "idle", kind |-> "none", limit |-> Limit(0), seen |-> 0, verdict |-> "none",
     model |-> "none", outcome |-> "none", calls |-> {}, recorded |-> 0,
     reply |-> "none", preflight |-> {}, cleared |-> FALSE]

NoSession == [state |-> "none", model |-> "none", image_model |-> "none"]

(***************************************************************************)
(* ai_service.py: the ensemble.  A text is the sequence of its words; the  *)
(* empty text is "".  ERROR_PREFIX stands for the literal the placeholders *)
(* start with and the success count looks for.                             *)
(***************************************************************************)
ERROR_PREFIX == "OSHIBKA:"

Participants_ == {MAX_MODE_PARTICIPANTS[i] : i \in 1..Len(MAX_MODE_PARTICIPANTS)}

\* what the backend does with one participant's call: a reply, a reply whose
\* text itself starts with the prefix, a reply with no content, APIError, timeout
PartOutcomes == {"text", "prefixed", "empty", "api_error", "timeout"}
RaisingOutcomes == {"api_error", "timeout"}

\* get_simple_response: the text it returns when it does not raise
ReplyText(o, who) ==
    CASE o = "text" -> <<"answer", who>>
      [] o = "prefixed" -> <<ERROR_PREFIX, "answer", who>>
      [] OTHER -> <<>>

\* _get_participant_response: the reply, or the placeholder with the exception's type
\* name; nothing is raised
get_participant_response(o, who) ==
    IF o \in RaisingOutcomes
    THEN <<ERROR_PREFIX, IF o = "timeout" THEN "APITimeoutError" ELSE "APIError">>
    ELSE ReplyText(o, who)

\* a plausible slip: the placeholders are looked for under another prefix
StartsWithOtherPrefix(t) == Len(t) > 0 /\ t[1] = "ERROR:"

\* safe_response_text.startswith(...)
StartsWithError(t) == Len(t) > 0 /\ t[1] = ERROR_PREFIX

Pending == [done |-> FALSE, outcome |-> "none", text |-> <<>>]

\* a plausible slip: the join returns on the first result
AnyResolved(replies) == \E m \in DOMAIN replies : replies[m].done

\* asyncio.gather(*tasks) returns when every task has
AllResolved(replies) == \A m \in DOMAIN replies : replies[m].done

\* a plausible slip: one error for both failures
ArbiterFailureMerged == "all_failed"

\* the RuntimeError messages: all participants failed / the arbiter failed
AllFailedError == "all_failed"
ArbiterFailedError == "arbiter_failed"

\* a plausible slip: the entries in the order the participants completed
MetaPromptAsCompleted(prompt, replies) ==
    [request |-> prompt,
     entries |-> [i \in 1..Len(ens.order) |->
                    [model |-> ens.order[i], text |-> replies[ens.order[i]].text]]]

\* the texts a user sends in Max Mode
UserPrompts == {<<"question">>, <<"other", "question">>}

NoPrompt == [request |-> <<>>, entries |-> <<>>]

\* the meta-prompt: the user's request and the entries, one per participant in
\* the configured order, each labelled with its model
MetaPrompt(prompt, replies) ==
    [request |-> prompt,
     entries |-> [i \in 1..Len(MAX_MODE_PARTICIPANTS) |->
                    [model |-> MAX_MODE_PARTICIPANTS[i],
                     text |-> replies[MAX_MODE_PARTICIPANTS[i]].text]]]

IdleEnsemble ==
    [pc |-> "idle", request |-> <<>>,
     replies |-> [m \in Participants_ |-> Pending], order |-> <<>>,
     arbiter_calls |-> 0, arbiter |-> "none", prompt |-> NoPrompt, result |-> <<>>,
     error |-> "none", recorded |-> 0, reply |-> "none"]

\* startup_model_check before its first statement
IdleBoot == [pc |-> "idle", status_state |-> NoRow, report_state |-> NoRow,
             checked_at |-> 0, adopted |-> FALSE]

\* no get_user_details_cached call made yet
NoGet == [pc |-> "idle", fetched |-> NoRow, overtaken |-> FALSE, returned |-> FALSE,
          reads |-> 0, details |-> NoRow, store |-> NoRow, at |-> 0,
          first |-> FALSE, follows |-> FALSE, previous |-> NoRow,
          invalidated |-> FALSE, started |-> FALSE, made |-> FALSE]

\* no admin view shown yet
NoCard == [kind |-> "none", user |-> "none", stored |-> 0, expired |-> FALSE,
           plan |-> 0, stats |-> [l \in 0..3 |-> 0], lapsed |-> [l \in 0..3 |-> 0]]

\* the handlers that start a waiting indicator (chat.py:177, 278; image_gen.py:97)
IndicatorHandlers == {"handle_chat_message", "handle_max_mode_message",
                      "generate_image_handler"}

\* no get_user_level call in flight
NoLevelCall == [pc |-> "idle", row |-> NoRow]

\* bot.py:111-117: the interval job as scheduler.add_job leaves it
IntervalJob == [state |-> "scheduled", last |-> "none"]

NoIndicator == [pc |-> "idle", task |-> "none", exit |-> "none"]

\* no request under way: nothing called, counted, marked or answered
NoTurn ==
    [pc |-> "idle", kind |-> "none", model |-> "none", history |-> <<>>, before |-> <<>>,
     counted |-> FALSE, marked |-> FALSE, failed |-> "none", reply |-> "none", seq |-> 0]

InitTasks ==
    /\ cache_call = [u \in Users |-> NoGet]
    /\ card = NoCard
    /\ animation_task = [h \in IndicatorHandlers |-> NoIndicator]
    /\ job = IntervalJob
    /\ level_call = [u \in Users |-> NoLevelCall]

\* no request under way, a chat without history
InitCalls ==
    /\ InitTasks
    /\ turn = NoTurn
    /\ fsm_history = <<>>

\* no single function called yet
InitCases ==
    /\ avail_call = [made |-> FALSE, result |-> FALSE]
    /\ ens = IdleEnsemble
    /\ boot = IdleBoot
    /\ late_failed = {}
    /\ InitCalls

InitLedger ==
    /\ requests = <<>>
    /\ today = 0
    /\ throttle = {}
    /\ fsm = NoSession
    /\ user_details = <<>>
    /\ handlers = [p \in Procs |-> IdleHandler]
    /\ events = 0
    /\ ledger = [d \in 0..MaxDays |-> [m \in Modes |-> 0]]

(***************************************************************************)
(* The registry specification.                                             *)
(***************************************************************************)
InitRegistry ==
    /\ model_status = <<>>
    /\ now = 0
    /\ probe_pc = "idle"
    /\ probe_results = EmptyDict
    /\ system_state = [k \in {"model_status", "last_report"} |-> NoRow]
    /\ rounds = 0
    /\ just_applied = FALSE
    /\ InitUsers
    /\ InitLedger
    /\ InitCases

\* time passes on the cache timer
Tick ==
    /\ now < MaxTicks * TickStep
    /\ now' = now + TickStep
    /\ just_applied' = FALSE
    /\ UNCHANGED <<model_status, probe_pc, probe_results, system_state, rounds>>
    /\ UNCHANGED notRegVars

\* a live call to model m failed and its handler calls set_model_failed_in_cache
MarkFailed(m) ==
    /\ model_status' = set_model_failed_in_cache(model_status, m, now)
    /\ just_applied' = FALSE
    /\ UNCHANGED <<now, probe_pc, probe_results, system_state, rounds>>
    /\ UNCHANGED notRegVars

\* scheduled_model_test starts its probes (lines 98-104)
ProbeStart ==
    /\ probe_pc = "idle"
    /\ rounds < MaxRounds
    /\ rounds' = rounds + 1
    /\ probe_pc' = "probing"
    /\ probe_results' = EmptyDict
    /\ just_applied' = FALSE
    /\ UNCHANGED <<model_status, now, system_state>>
    /\ UNCHANGED notRegVars

\* one probe of the gather resolves with its status
ProbeResult(m, s) ==
    /\ probe_pc = "probing"
    /\ m \notin DOMAIN probe_results
    /\ probe_results' = DictPut(probe_results, m, s)
    /\ just_applied' = FALSE
    /\ UNCHANGED <<model_status, now, probe_pc, system_state, rounds>>
    /\ UNCHANGED notRegVars

\* the gather is complete: the report is built and the cache written (106-123)
ProbeApply ==
    /\ probe_pc = "probing"
    /\ DOMAIN probe_results = ProbedModels
    /\ model_status' = ApplyProbeResults(model_status, probe_results, now)
    /\ probe_pc' = "persist_status"
    /\ just_applied' = TRUE
    /\ UNCHANGED <<now, probe_results, system_state, rounds>>
    /\ UNCHANGED notRegVars

\* line 125
PersistStatus ==
    /\ probe_pc = "persist_status"
    /\ system_state' = set_system_state(system_state, "model_status",
                                        json_dumps(probe_results), now)
    /\ probe_pc' = "persist_report"
    /\ just_applied' = FALSE
    /\ UNCHANGED <<model_status, now, probe_results, rounds>>
    /\ UNCHANGED notRegVars

\* line 126
PersistReport ==
    /\ probe_pc = "persist_report"
    /\ system_state' = set_system_state(system_state, "last_report",
                                        ReportText(probe_results, now), now)
    /\ probe_pc' = "idle"
    /\ just_applied' = FALSE
    /\ UNCHANGED <<model_status, now, probe_results, rounds>>
    /\ UNCHANGED notRegVars

NextRegistry ==
    \/ Tick
    \/ \E m \in ProbedModels : MarkFailed(m)
    \/ ProbeStart
    \/ \E m \in ProbedModels, s \in ProbeStatuses : ProbeResult(m, s)
    \/ ProbeApply
    \/ PersistStatus
    \/ PersistReport

SpecRegistry == InitRegistry /\ [][NextRegistry]_vars

(***************************************************************************)
(* Properties of the registry.                                             *)
(***************************************************************************)
\* the registry holds a status of m that a reader can see
HasStatusEntry(m) ==
    \E i \in 1..Len(model_status) :
        /\ model_status[i].key = "statuses"
        /\ now < model_status[i].expires
        /\ m \in DOMAIN model_status[i].value

Available(m) == is_model_available(model_status, m, now)

\* C1: once set_model_failed_in_cache(m) has run, m is unavailable, and an
\* unavailable model becomes available again only by the step of a probe round
\* that applies status 'OK' for it: not by a round that reports it non-OK, not
\* by another model's markFailed, not by a report write, not by time passing.
C1_FailedUntilProbedOk ==
    [][\A m \in ProbedModels :
        /\ MarkFailed(m) => ~is_model_available(model_status', m, now')
        /\ (~Available(m) /\ is_model_available(model_status', m, now'))
              => (ProbeApply /\ probe_results[m] = "OK")]_vars

\* C31: set_model_failed_in_cache(m) changes nothing but the status of m: the
\* status of every other model and the stored health report are the same
\* after the call as before it, and a second call changes nothing further.
C31_MarkFailedChangesOnlyItsModel ==
    [][\A m \in ProbedModels :
          MarkFailed(m) =>
            /\ \A x \in AllModelIds \ {m} :
                  DictGet(Statuses(model_status', now'), x, "absent")
                    = DictGet(Statuses(model_status, now), x, "absent")
            /\ CacheGet(model_status', "last_report", now', NoRow)
                  = CacheGet(model_status, "last_report", now, NoRow)
            /\ set_model_failed_in_cache(model_status', m, now') = model_status']_vars

\* C2: right after a probe round has applied its results, every probed model is
\* available if and only if the round reported 'OK' for it.
C2_AppliedRoundDecidesAvailability ==
    just_applied =>
        \A m \in ProbedModels : Available(m) <=> (probe_results[m] = "OK")

\* C3: a model with no status entry in the registry is available (fail-open):
\* with the registry empty, before any round or markFailed, and for an
\* identifier no probe covers.
C3_FailOpen ==
    \A m \in AllModelIds : ~HasStatusEntry(m) => Available(m)

\* the registry holds statuses, one model is marked failed in them, and another
\* probed model and the unprobed identifier have no entry and are available
C3_Witness ==
    /\ \E m \in ProbedModels : HasStatusEntry(m) /\ ~Available(m)
    /\ \E m \in ProbedModels : ~HasStatusEntry(m) /\ Available(m)
    /\ ~HasStatusEntry(UnprobedModel) /\ Available(UnprobedModel)

(***************************************************************************)
(* The limits specification: profiles change as the handlers change them   *)
(* and get_user_limits is called on every profile that results.            *)
(***************************************************************************)
\* /start of a user not yet in the table (common.py start_handler)
StartBot(u) ==
    /\ ~users[u].present
    /\ users' = add_user(users, u)
    /\ UNCHANGED limits_call
    /\ UNCHANGED notLimVars

\* grant_sub_process: the administrator grants level 1, 2 or 3
GrantSubscription(u, level) ==
    /\ users' = update_subscription(users, u, level)
    /\ UNCHANGED limits_call
    /\ UNCHANGED notLimVars

\* handle_user_action 'revoke'
RevokeSubscription(u) ==
    /\ users' = update_subscription(users, u, 0)
    /\ UNCHANGED limits_call
    /\ UNCHANGED notLimVars

\* check_reward_subscription_handler: the bonus is granted
GrantBonus(u) ==
    /\ users' = set_reward_bonus(users, u)
    /\ UNCHANGED limits_call
    /\ UNCHANGED notLimVars

\* time passes beyond the end of u's subscription
SubscriptionLapses(u) ==
    /\ users[u].present
    /\ users[u].sub_end = "future"
    /\ users' = [users EXCEPT ![u].sub_end = "past"]
    /\ UNCHANGED limits_call
    /\ UNCHANGED notLimVars

\* a call of get_user_limits(u), from whichever handler
ResolveLimits(u) ==
    LET r == get_user_limits(users, u)
    IN  /\ users' = r.users
        /\ limits_call' = [made |-> TRUE, user |-> u, row |-> users[u],
                           daily |-> r.daily, max_mode |-> r.max_mode]
        /\ UNCHANGED notLimVars

NextLimits ==
    \/ \E u \in Users : StartBot(u)
    \/ \E u \in Users, level \in 1..3 : GrantSubscription(u, level)
    \/ \E u \in Users : RevokeSubscription(u)
    \/ \E u \in Users : GrantBonus(u)
    \/ \E u \in Users : SubscriptionLapses(u)
    \/ \E u \in Users : ResolveLimits(u)

SpecLimits == InitRegistry /\ [][NextLimits]_vars

(***************************************************************************)
(* Properties of limit resolution.                                         *)
(***************************************************************************)
\* the tier a stored row counts as: 0 without a row or with an expiry in the past
EffectiveTier(row) ==
    IF ~row.present THEN 0
    ELSE IF row.level > 0 /\ row.sub_end = "past" THEN 0
    ELSE row.level

\* C8: get_user_limits follows the precedence administrator > expired tier
\* counts as tier 0 > tier-0 bonus (REWARD_LIMIT, 0) > LIMITS[tier]: an
\* administrator gets (unlimited, unlimited) whatever is stored, and the bonus
\* flag changes nothing for an unexpired tier 1-3.
C8_LimitPrecedence ==
    limits_call.made =>
        LET u == limits_call.user
            row == limits_call.row
            tier == EffectiveTier(row)
            got == <<limits_call.daily, limits_call.max_mode>>
        IN  IF u \in ADMIN_IDS THEN got = <<Unlimited, Unlimited>>
            ELSE IF tier = 0 /\ row.present /\ row.bonus
                 THEN got = <<Limit(7), Limit(0)>>
                 ELSE got = <<Limit(LIMITS[tier].daily), Limit(LIMITS[tier].max_mode)>>

\* limits were resolved for a user whose stored tier 2 had expired and who holds
\* the bonus flag: (7, 0); the call wrote tier 0 back
C8_Witness ==
    /\ limits_call.made
    /\ limits_call.user \notin ADMIN_IDS
    /\ limits_call.row.present
    /\ limits_call.row.level = 2 /\ limits_call.row.sub_end = "past"
    /\ limits_call.row.bonus
    /\ limits_call.daily = Limit(REWARD_LIMIT)
    /\ users[limits_call.user].level = 0

(***************************************************************************)
(* The handler specification: the updates of one non-admin user, handled   *)
(* as concurrent tasks.  A step runs a handler from one suspension point   *)
(* (a store read or write, a backend call, a message sent) to the next;    *)
(* FSM context operations are in memory and do not suspend.  Messages to   *)
(* the user are delivered.                                                 *)
(***************************************************************************)
ChatSession == [NoSession EXCEPT !.state = "Chat", !.model = "gpt-4.1"]
MaxModeSession == [NoSession EXCEPT !.state = "MaxMode"]
ImagePromptSession ==
    [NoSession EXCEPT !.state = "ImageGen_prompt", !.image_model = "gpt-image-1"]

\* the user's row: free tier, free tier blocked by an admin, tier 3 running,
\* tier 2 whose subscription_end has passed
Profiles ==
    {[NewUserRow EXCEPT !.verified = TRUE],
     [NewUserRow EXCEPT !.verified = TRUE, !.blocked = TRUE],
     [NewUserRow EXCEPT !.verified = TRUE, !.level = 3, !.sub_end = "future"],
     [NewUserRow EXCEPT !.verified = TRUE, !.level = 2, !.sub_end = "past"]}

\* the sessions the user can be in when the first update arrives
SessionsOf(row) ==
    IF row.blocked THEN {ChatSession}
    ELSE IF row.level = 0 THEN {NoSession, ChatSession}
    ELSE IF row.level = 3 THEN {MaxModeSession}
    ELSE {ImagePromptSession}

\* how much of today's budget is already used
PreloadLevels == {"one_left", "full"}
PreloadCount(lvl, n) ==
    IF lvl = "one_left" THEN (IF n > 0 THEN n - 1 ELSE 0) ELSE n

\* the registry the first update finds: nothing cached, or a model marked failed
RegistryStarts ==
    {<<>>, set_model_failed_in_cache(<<>>, MAX_MODE_ARBITER, 0)}

\* the profile and the session the first update finds
ProfileSessions == UNION {{<<row, f>> : f \in SessionsOf(row)} : row \in Profiles}

\* a user inside a chat, Max Mode or image session whom the admin has blocked
\* since (handle_user_action 'block' writes the flag and leaves the session)
BlockedSessions ==
    {<<[NewUserRow EXCEPT !.verified = TRUE, !.blocked = TRUE], ChatSession>>,
     <<[NewUserRow EXCEPT !.verified = TRUE, !.blocked = TRUE, !.level = 3,
                          !.sub_end = "future"], MaxModeSession>>,
     <<[NewUserRow EXCEPT !.verified = TRUE, !.blocked = TRUE, !.level = 2,
                          !.sub_end = "future"], ImagePromptSession>>}

InitQuotaFrom(starts) ==
    /\ model_status \in RegistryStarts
    /\ now = 0
    /\ probe_pc = "idle"
    /\ probe_results = EmptyDict
    /\ system_state = [k \in {"model_status", "last_report"} |-> NoRow]
    /\ rounds = 0
    /\ just_applied = FALSE
    /\ limits_call = [made |-> FALSE]
    /\ \E st \in starts, lvl \in PreloadLevels :
          LET row == st[1]
              tbl == [u \in Users |-> IF u = TheUser THEN row ELSE NoRow]
              lim == get_user_limits(tbl, TheUser)
              a == PreloadCount(lvl, lim.daily.n)
              b == PreloadCount(lvl, lim.max_mode.n)
          IN  /\ users = tbl
              /\ fsm = st[2]
              /\ requests = Rows("admin", "gpt-4.1", FALSE, 1)
                              \o Rows(TheUser, "gpt-4.1", FALSE, a)
                              \o Rows(TheUser, "max_mode_ensemble", TRUE, b)
              /\ ledger = [d \in 0..MaxDays |->
                             [m \in Modes |-> IF d # 0 THEN 0 ELSE IF m THEN b ELSE a]]
    /\ today = 0
    /\ throttle = {}
    /\ user_details = <<>>
    /\ handlers = [p \in Procs |-> IdleHandler]
    /\ events = 0
    /\ InitCases

InitQuota == InitQuotaFrom(ProfileSessions)

\* dispatcher: an update passes the antiflood middleware and is routed to its
\* handler, which starts as a task of its own.  A task at "idle" has returned;
\* it keeps what its last run did until the next update takes it.
Arrive(p, kind, m) ==
    /\ events < MaxEvents
    /\ handlers[p].pc = "idle"
    /\ p = "h2" => handlers["h1"].pc # "idle"
    /\ IF kind = "select" THEN m \in SelectableModels ELSE m = "none"
    /\ ThrottleAdmits(throttle, TheUser)
    /\ Routed(kind, fsm)
    /\ throttle' = throttle \cup {TheUser}
    /\ events' = events + 1
    /\ handlers' = [handlers EXCEPT ![p] =
          [IdleHandler EXCEPT !.kind = kind, !.model = m,
                              !.pc = IF kind \in MaxKinds \cup {"image"}
                                     THEN "preflight" ELSE "details"]]
    /\ UNCHANGED <<model_status, users, requests, today, fsm, user_details, ledger, proberVars>>

\* ThrottlingMiddleware: an update inside the rate limit window is dropped
DropThrottled ==
    /\ events < MaxEvents
    /\ ~ThrottleAdmits(throttle, TheUser)
    /\ events' = events + 1
    /\ UNCHANGED <<model_status, users, requests, today, throttle, fsm, user_details,
                   handlers, ledger, proberVars>>

\* the antiflood entry's ttl (one second) runs out
ThrottleExpires ==
    /\ throttle # {}
    /\ throttle' = {}
    /\ UNCHANGED <<model_status, users, requests, today, fsm, user_details, handlers,
                   events, ledger, proberVars>>

\* midnight in MSK
NextDay ==
    /\ today < MaxDays
    /\ today' = today + 1
    /\ UNCHANGED <<model_status, users, requests, throttle, fsm, user_details, handlers,
                   events, ledger, proberVars>>

\* chat, model selection, group triggers: the profile read and the checks on it
LoadDetails(p) ==
    LET h == handlers[p]
        r == get_user_details_cached(user_details, users, TheUser, now)
        d == r.details
        group == h.kind \in {"group_text", "group_image"}
    IN  /\ h.pc = "details"
        /\ user_details' = r.cache
        /\ handlers' = [handlers EXCEPT ![p] =
              IF group /\ (~d.present \/ ~d.verified \/ d.blocked)
              THEN [h EXCEPT !.pc = "idle", !.reply = "ignored"]
              ELSE IF ~group /\ d.present /\ d.blocked
              THEN [h EXCEPT !.pc = "idle", !.reply = "blocked"]
              ELSE [h EXCEPT !.pc = "limits",
                             !.model = CASE h.kind = "group_text" ->
                                              IF d.last_model = "none"
                                              THEN DEFAULT_TEXT_MODEL ELSE d.last_model
                                         [] h.kind = "group_image" ->
                                              IF d.last_image_model = "none"
                                              THEN DEFAULT_IMAGE_MODEL ELSE d.last_image_model
                                         [] OTHER -> h.model]]
        /\ UNCHANGED <<model_status, users, requests, today, throttle, fsm, events, ledger,
                       proberVars>>

\* a plausible slip: the unavailable model is called before the answer
UnavailableReplyAfterCall(h, model, pc) ==
    [h EXCEPT !.pc = pc, !.model = model, !.reply = "unavailable", !.calls = {model}]

\* the target model is unavailable at the check before the dispatch: the
\* handler answers that and returns (the image handler clears the session first)
UnavailableReply(h, model, pc) ==
    [h EXCEPT !.pc = pc, !.model = model, !.reply = "unavailable"]

\* image generation and Max Mode: the registry is asked before the limits.
\* down keeps the Max Mode models the registry holds unavailable at this moment.
Preflight(p) ==
    LET h == handlers[p]
        down == {m \in MaxModeModels : ~is_model_available(model_status, m, now)}
    IN  /\ h.pc = "preflight"
        /\ CASE h.kind = "image" ->
                  IF fsm.image_model = "none"
                  THEN /\ handlers' = [handlers EXCEPT ![p] =
                             [h EXCEPT !.pc = "clear", !.reply = "no_model"]]
                       /\ users' = users
                  ELSE IF ~is_model_available(model_status, fsm.image_model, now)
                  THEN /\ handlers' = [handlers EXCEPT ![p] =
                             UnavailableReply(h, fsm.image_model, "clear")]
                       /\ users' = get_user_level(users, TheUser).users
                  ELSE /\ handlers' = [handlers EXCEPT ![p] =
                             [h EXCEPT !.pc = "limits", !.model = fsm.image_model]]
                       /\ users' = users
             [] h.kind = "max_activate" ->
                  /\ handlers' = [handlers EXCEPT ![p] =
                        IF ~are_max_mode_models_available(model_status, now)
                        THEN [h EXCEPT !.pc = "idle", !.reply = "degraded", !.preflight = down]
                        ELSE [h EXCEPT !.pc = "limits", !.preflight = down]]
                  /\ users' = users
             [] OTHER ->
                  /\ handlers' = [handlers EXCEPT ![p] =
                        IF ~are_max_mode_models_available(model_status, now)
                        THEN [h EXCEPT !.pc = "clear", !.reply = "degraded", !.preflight = down]
                        ELSE [h EXCEPT !.pc = "limits", !.preflight = down]]
                  /\ users' = users
        /\ UNCHANGED <<model_status, requests, today, throttle, fsm, user_details, events,
                       ledger, proberVars>>

\* get_user_limits (group image: get_user_level first, tiers under 2 are ignored);
\* the lazy downgrade is written to the users table
ResolveLimit(p) ==
    LET h == handlers[p]
        lv == get_user_level(users, TheUser)
        r == get_user_limits(lv.users, TheUser)
    IN  /\ h.pc = "limits"
        /\ IF h.kind = "group_image" /\ lv.level < 2
           THEN /\ users' = lv.users
                /\ handlers' = [handlers EXCEPT ![p] =
                      [h EXCEPT !.pc = "idle", !.reply = "ignored"]]
           ELSE /\ users' = r.users
                /\ handlers' = [handlers EXCEPT ![p] =
                      [h EXCEPT !.pc = "count",
                                !.limit = IF h.kind \in MaxKinds THEN r.max_mode ELSE r.daily]]
        /\ UNCHANGED <<model_status, requests, today, throttle, fsm, user_details, events,
                       ledger, proberVars>>

\* the admission check: get_user_requests_today, the comparison with the limit and
\* what each handler does up to its next suspension point
ReadCount(p) ==
    LET h == handlers[p]
        n == get_user_requests_today(requests, TheUser, today, h.kind \in MaxKinds)
        no == [h EXCEPT !.seen = n, !.verdict = "rejected", !.reply = "limit", !.pc = "idle"]
        yes == [h EXCEPT !.seen = n, !.verdict = "admitted"]
        model == IF h.kind = "chat" THEN fsm.model ELSE h.model
    IN  /\ h.pc = "count"
        /\ IF LimitReached(n, h.limit)
           THEN /\ handlers' = [handlers EXCEPT ![p] =
                      IF h.kind = "max_msg" THEN [no EXCEPT !.pc = "clear"]
                      ELSE IF h.kind \in {"chat", "image"} THEN [no EXCEPT !.cleared = TRUE]
                      ELSE no]
                /\ fsm' = IF h.kind \in {"chat", "image"} THEN NoSession ELSE fsm
           ELSE /\ handlers' = [handlers EXCEPT ![p] =
                      CASE h.kind = "select" -> [yes EXCEPT !.pc = "select_write"]
                        [] h.kind \in {"chat", "group_text", "group_image"} ->
                              IF is_model_available(model_status, model, now)
                              THEN [yes EXCEPT !.pc = "call", !.model = model]
                              ELSE UnavailableReply(yes, model, "idle")
                        [] h.kind = "image" -> [yes EXCEPT !.pc = "call", !.cleared = TRUE]
                        [] h.kind = "max_activate" ->
                              [yes EXCEPT !.pc = "idle", !.reply = "activated"]
                        [] OTHER -> [yes EXCEPT !.pc = "participants"]]
                /\ fsm' = CASE h.kind = "image" -> NoSession
                            [] h.kind = "max_activate" -> [fsm EXCEPT !.state = "MaxMode"]
                            [] OTHER -> fsm
        /\ UNCHANGED <<model_status, users, requests, today, throttle, user_details, events,
                       ledger, proberVars>>

\* select_model_handler once admitted: set_last_used_model, invalidate_user_cache,
\* set_state(Chat.in_progress), update_data(model=...)
SelectWrite(p) ==
    LET h == handlers[p]
    IN  /\ h.pc = "select_write"
        /\ users' = IF users[TheUser].present
                    THEN [users EXCEPT ![TheUser].last_model = h.model] ELSE users
        /\ user_details' = invalidate_user_cache(user_details, TheUser)
        /\ fsm' = [fsm EXCEPT !.state = "Chat", !.model = h.model]
        /\ handlers' = [handlers EXCEPT ![p] = [h EXCEPT !.pc = "idle", !.reply = "selected"]]
        /\ UNCHANGED <<model_status, requests, today, throttle, events, ledger, proberVars>>

\* the single backend call of chat, group text, group image and image generation,
\* from the request to the branch its outcome takes
Call(p, o) ==
    LET h == handlers[p]
        text == h.kind \notin ImageKinds
        r == get_user_details_cached(user_details, users, TheUser, now)
        marks == IF text THEN h.kind = "chat" /\ o = "api_error" ELSE o # "ok"
    IN  /\ h.pc = "call"
        /\ o \in (IF text THEN TextOutcomes ELSE ImageOutcomes)
        /\ user_details' = IF text THEN r.cache ELSE user_details
        /\ model_status' = IF marks
                           THEN set_model_failed_in_cache(model_status, h.model, now)
                           ELSE model_status
        /\ handlers' = [handlers EXCEPT ![p] =
              IF CallSucceeded(h.kind, o)
              THEN [h EXCEPT !.pc = "record", !.outcome = o, !.calls = {h.model}]
              ELSE [h EXCEPT !.pc = "idle", !.outcome = o, !.calls = {h.model},
                             !.reply = "error"]]
        /\ UNCHANGED <<users, requests, today, throttle, fsm, events, ledger, proberVars>>

\* get_max_mode_response, first half: one call per participant, gathered; the
\* participants in failed answer with an error placeholder
Participants(p, failed) ==
    LET h == handlers[p]
        all == {MAX_MODE_PARTICIPANTS[i] : i \in 1..Len(MAX_MODE_PARTICIPANTS)}
        r == get_user_details_cached(user_details, users, TheUser, now)
    IN  /\ h.pc = "participants"
        /\ failed \subseteq all
        /\ user_details' = r.cache
        /\ handlers' = [handlers EXCEPT ![p] =
              IF failed = all
              THEN [h EXCEPT !.pc = "idle", !.outcome = "all_failed", !.calls = all,
                             !.reply = "error"]
              ELSE [h EXCEPT !.pc = "arbiter", !.calls = all]]
        /\ UNCHANGED <<model_status, users, requests, today, throttle, fsm, events, ledger,
                       proberVars>>

\* get_max_mode_response, second half: the arbiter's call
Arbiter(p, o) ==
    LET h == handlers[p]
        r == get_user_details_cached(user_details, users, TheUser, now)
    IN  /\ h.pc = "arbiter"
        /\ o \in TextOutcomes
        /\ user_details' = r.cache
        /\ handlers' = [handlers EXCEPT ![p] =
              IF CallSucceeded(h.kind, o)
              THEN [h EXCEPT !.pc = "record", !.outcome = o, !.model = "max_mode_ensemble",
                             !.calls = @ \cup {MAX_MODE_ARBITER}]
              ELSE [h EXCEPT !.pc = "idle", !.outcome = "arbiter_failed",
                             !.calls = @ \cup {MAX_MODE_ARBITER}, !.reply = "error"]]
        /\ UNCHANGED <<model_status, users, requests, today, throttle, fsm, events, ledger,
                       proberVars>>

\* db.add_request after the successful call, then the answer to the user.
\* ledger counts the add_request calls that completed.
Record(p) ==
    LET h == handlers[p]
        mode == RecordedMode(h.kind)
    IN  /\ h.pc = "record"
        /\ requests' = add_request(requests, TheUser, h.model, today, mode)
        /\ ledger' = [ledger EXCEPT ![today][mode] = @ + 1]
        /\ handlers' = [handlers EXCEPT ![p] =
              [h EXCEPT !.pc = "idle", !.recorded = @ + 1, !.reply = "answer"]]
        /\ UNCHANGED <<model_status, users, today, throttle, fsm, user_details, events,
                       proberVars>>

\* state.clear() after the reply that announces it
ClearSession(p) ==
    LET h == handlers[p]
    IN  /\ h.pc = "clear"
        /\ fsm' = NoSession
        /\ handlers' = [handlers EXCEPT ![p] = [h EXCEPT !.pc = "idle", !.cleared = TRUE]]
        /\ UNCHANGED <<model_status, users, requests, today, throttle, user_details, events,
                       ledger, proberVars>>

NextQuota ==
    \/ \E p \in Procs, kind \in Kinds, m \in SelectableModels \cup {"none"} : Arrive(p, kind, m)
    \/ DropThrottled
    \/ ThrottleExpires
    \/ NextDay
    \/ \E p \in Procs : LoadDetails(p)
    \/ \E p \in Procs : Preflight(p)
    \/ \E p \in Procs : ResolveLimit(p)
    \/ \E p \in Procs : ReadCount(p)
    \/ \E p \in Procs : SelectWrite(p)
    \/ \E p \in Procs, o \in TextOutcomes \cup ImageOutcomes : Call(p, o)
    \/ \E p \in Procs, failed \in SUBSET MaxModeModels : Participants(p, failed)
    \/ \E p \in Procs, o \in TextOutcomes : Arbiter(p, o)
    \/ \E p \in Procs : Record(p)
    \/ \E p \in Procs : ClearSession(p)

SpecQuota == InitQuota /\ [][NextQuota]_vars

(***************************************************************************)
(* Properties of the handler specification.                                *)
(***************************************************************************)
CountToday(is_max_mode) == get_user_requests_today(requests, TheUser, today, is_max_mode)

InFlight(p) == handlers[p].pc \in {"call", "participants", "arbiter", "record"}

\* C4: a non-admin user's admission check that reads a count at or over the
\* resolved limit of its mode rejects: in every handler (chat, model selection,
\* group text, group image, image generation, Max Mode activation, Max Mode
\* message) that check is followed by no backend call and no add_request.
C4_AtLimitRejected ==
    \A p \in Procs :
        LET h == handlers[p]
        IN  (h.verdict # "none" /\ ~h.limit.inf /\ h.seen >= h.limit.n)
                => /\ h.verdict = "rejected"
                   /\ h.reply = "limit"
                   /\ h.calls = {}
                   /\ h.recorded = 0
                   /\ ~InFlight(p)

\* the spec's scenario: free tier, limit 3, three requests today, the fourth
\* chat message is rejected and the session is closed
C4_Witness ==
    \E p \in Procs :
        /\ handlers[p].kind = "chat"
        /\ handlers[p].verdict = "rejected"
        /\ handlers[p].limit = Limit(3)
        /\ handlers[p].seen = 3
        /\ CountToday(FALSE) = 3
        /\ handlers[p].pc = "idle"
        /\ fsm = NoSession

\* C5: usage is recorded only after the backend call succeeded.  A handler
\* whose call failed (APIError incl. timeout, another exception, a non-200
\* image response, all participants failed, the arbiter failed) never reaches
\* add_request, the failing step leaves the requests table as it is, and every
\* row inserted is inserted by a handler whose call returned.
C5_RecordedOnlyAfterSuccess ==
    [][/\ \A p \in Procs :
            LET h == handlers'[p]
            IN  /\ h.outcome \notin {"none", "ok"} => (h.recorded = 0 /\ h.pc = "idle")
                /\ (h.recorded > 0 \/ h.pc = "record") => (h.outcome = "ok" /\ h.calls # {})
                /\ (handlers[p].outcome = "none" /\ h.outcome \notin {"none", "ok"})
                      => requests' = requests
       /\ requests' # requests =>
             \E p \in Procs : /\ handlers[p].pc = "record"
                              /\ handlers[p].outcome = "ok"
                              /\ handlers'[p].recorded = handlers[p].recorded + 1]_vars

\* an image generation answered with a non-200 status: the model is marked
\* failed and the day's count is what the admission check read
C5_Witness ==
    \E p \in Procs :
        /\ handlers[p].kind = "image"
        /\ handlers[p].outcome = "non200"
        /\ handlers[p].calls = {"gpt-image-1"}
        /\ handlers[p].recorded = 0
        /\ ~is_model_available(model_status, "gpt-image-1", now)
        /\ today = 0
        /\ CountToday(FALSE) = handlers[p].seen

\* C6: no add_request is lost: every step in which add_request calls complete
\* raises the count get_user_requests_today returns for their day and mode by
\* exactly the number of calls completed (ledger), and the count of no other day
\* or mode moves, however the inserts and the reads of two handlers interleave.
C6_NoLostIncrement ==
    [][(requests' # requests \/ ledger' # ledger) =>
          \A d \in 0..MaxDays, mode \in Modes :
              get_user_requests_today(requests', TheUser, d, mode)
                  - get_user_requests_today(requests, TheUser, d, mode)
                = ledger'[d][mode] - ledger[d][mode]]_vars

\* two Max Mode messages read the same count, then both record: the count is
\* two higher than what they read
C6_Witness ==
    /\ \A p \in Procs : /\ handlers[p].kind = "max_msg"
                        /\ handlers[p].recorded = 1
                        /\ handlers[p].seen = 4
    /\ today = 0
    /\ CountToday(TRUE) = 6

\* C7: the antiflood middleware only spaces arrivals (an update starts a
\* handler only while the user has no live antiflood entry, and leaves one), and
\* an insert that takes the day's count over the limit is made by a handler
\* whose own admission read was under the limit, other inserts having landed
\* between its read and its insert.  The interleaving itself is C7_Witness.
C7_RaceWindowOnly ==
    [][\A p \in Procs :
          LET h == handlers[p]
              before == CountToday(h.kind \in MaxKinds)
          IN  /\ (h.pc = "idle" /\ handlers'[p].pc # "idle")
                    => (TheUser \notin throttle /\ TheUser \in throttle')
              /\ (handlers'[p].recorded > h.recorded /\ ~h.limit.inf /\ before >= h.limit.n)
                    => (h.verdict = "admitted" /\ h.seen < h.limit.n /\ before > h.seen)]_vars

\* two chat messages of a free-tier user arrive a throttle window apart with 2
\* of 3 requests used, both read 2, both are admitted, both record: 4 of 3
C7_Witness ==
    /\ \A p \in Procs : /\ handlers[p].kind = "chat"
                        /\ handlers[p].limit = Limit(3)
                        /\ handlers[p].seen = 2
                        /\ handlers[p].verdict = "admitted"
                        /\ handlers[p].recorded = 1
    /\ today = 0
    /\ CountToday(FALSE) = 4

\* C9: get_user_requests_today counts the rows of the current MSK day and of
\* the requested mode only.  Rows are never changed or removed; at a day change
\* the table is left as it is and the count of the new day is 0; and on every
\* day the rows of other days do not count.
C9_DayKeyedCount ==
    [][/\ \/ requests' = requests
          \/ /\ Len(requests') > Len(requests)
             /\ SubSeq(requests', 1, Len(requests)) = requests
       /\ today' # today =>
             /\ requests' = requests
             /\ \A mode \in Modes :
                   get_user_requests_today(requests', TheUser, today', mode) = 0
       /\ (requests' # requests \/ today' # today) =>
             \A mode \in Modes :
                get_user_requests_today(requests', TheUser, today', mode)
                   <= Len(requests') - Cardinality({i \in 1..Len(requests') :
                                                      requests'[i].request_date # today'})]_vars

\* a free-tier user who used all 3 requests yesterday is admitted today on a
\* count of 0, and yesterday's 3 rows are still there
C9_Witness ==
    \E p \in Procs :
        /\ today = 1
        /\ handlers[p].kind = "chat"
        /\ handlers[p].limit = Limit(3)
        /\ handlers[p].verdict = "admitted"
        /\ handlers[p].seen = 0
        /\ handlers[p].recorded = 1
        /\ get_user_requests_today(requests, TheUser, 0, FALSE) = 3
        /\ CountToday(FALSE) = 1

C16_EnsembleUsageSeparate ==
    [][\A p \in Procs :
          LET h == handlers[p]
              cnt(mode) == get_user_requests_today(requests, TheUser, today, mode)
              cnt2(mode) == get_user_requests_today(requests', TheUser, today', mode)
          IN  /\ (h.pc \in {"participants", "arbiter"} /\ handlers'[p] # h)
                    => requests' = requests
              /\ (h.pc = "record" /\ handlers'[p].recorded = h.recorded + 1)
                    => IF h.kind = "max_msg"
                       THEN cnt2(TRUE) = cnt(TRUE) + 1 /\ cnt2(FALSE) = cnt(FALSE)
                       ELSE cnt2(FALSE) = cnt(FALSE) + 1 /\ cnt2(TRUE) = cnt(TRUE)]_vars

\* a Max Mode message went through both participants and the arbiter and was
\* answered: one add_request, the Max Mode count one over what the admission
\* check read, no normal request written today
C16_Witness ==
    \E p \in Procs :
        /\ handlers[p].kind = "max_msg"
        /\ handlers[p].reply = "answer"
        /\ handlers[p].calls = MaxModeModels
        /\ handlers[p].recorded = 1
        /\ handlers[IF p = "h1" THEN "h2" ELSE "h1"].kind = "none"
        /\ today = 0
        /\ CountToday(TRUE) = handlers[p].seen + 1
        /\ ledger[0][TRUE] = CountToday(TRUE)
        /\ ledger[0][FALSE] = CountToday(FALSE)

\* what the provider's failure looks like to the handler: APIError (the
\* client's timeout is one) for a text model, a status other than 200 or an
\* exception of the HTTP session (its timeout is one) for an image model
ProviderFailures == {"api_error", "non200", "exception"}

\* get_simple_response finds no choices or no content in the reply and returns
\* the empty string (ai_service.py:52-55); the chat and group text handlers go
\* on in their try body as with any returned text
CallEmpty(p) ==
    LET h == handlers[p]
        r == get_user_details_cached(user_details, users, TheUser, now)
    IN  /\ h.pc = "call"
        /\ h.kind \notin ImageKinds
        /\ user_details' = r.cache
        /\ handlers' = [handlers EXCEPT ![p] =
              [h EXCEPT !.pc = "record", !.outcome = "empty", !.calls = {h.model}]]
        /\ UNCHANGED <<model_status, users, requests, today, throttle, fsm, events, ledger,
                       proberVars>>

NextReplies ==
    \/ NextQuota
    \/ \E p \in Procs : CallEmpty(p)

SpecReplies == InitQuota /\ [][NextReplies]_vars

\* C27: a single-model reply with empty or absent content is handled as a
\* provider error: the handler answers with the error, the model is marked
\* failed in the registry, and no usage is recorded for the request
C27_EmptyReplyIsProviderError ==
    [][\A p \in Procs :
          LET h == handlers[p]
              h2 == handlers'[p]
          IN  /\ (h.pc = "call" /\ h2.outcome = "empty")
                    => /\ h2.reply = "error"
                       /\ ~is_model_available(model_status', h2.model, now')
              /\ h2.outcome = "empty" => h2.recorded = 0]_vars

\* the updates of a user who may have been blocked inside a session
SpecBlocked == InitQuotaFrom(ProfileSessions \cup BlockedSessions) /\ [][NextQuota]_vars

\* C32: a blocked user never has a backend call dispatched and never has
\* usage recorded, in any mode, also when the block came while the user was
\* inside a chat, Max Mode or image generation session.
C32_BlockedUserNeverDispatched ==
    (users[TheUser].present /\ users[TheUser].blocked) =>
        \A p \in Procs : handlers[p].calls = {} /\ handlers[p].recorded = 0

C17_FailedCallMarksModel ==
    [][\A p \in Procs :
          (/\ handlers[p].pc = "call"
           /\ handlers'[p].outcome \in ProviderFailures)
              => ~is_model_available(model_status', handlers[p].model, now')]_vars

\* C20: every write to the user's profile row invalidates the user's entry in
\* the user_details cache: once the handler that wrote has run on, the cache
\* holds no entry for the user, and the next cached read comes from the table.
C20_ProfileWriteInvalidatesCache ==
    [][users'[TheUser] # users[TheUser]
          => ~CacheHas(user_details', TheUser, now')]_vars

(***************************************************************************)
(* The availability specification: are_max_mode_models_available on every *)
(* registry over the Max Mode models.                                      *)
(***************************************************************************)
\* what the registry can hold for one model: a probe status, FAILED, or nothing
StatusInputs == {"OK", "FAILED", "Timeout", "absent"}

DictOf(f) == [m \in {x \in DOMAIN f : f[x] # "absent"} |-> f[m]]

\* the caches with a statuses entry, and the empty cache
RegistryInputs ==
    {<<>>} \cup {CacheSet(<<>>, "statuses", DictOf(f), 0, STATUS_TTL, STATUS_MAXSIZE) :
                    f \in [MaxModeModels -> StatusInputs]}

InitAvailability ==
    /\ model_status \in RegistryInputs
    /\ now = 0
    /\ probe_pc = "idle"
    /\ probe_results = EmptyDict
    /\ system_state = [k \in {"model_status", "last_report"} |-> NoRow]
    /\ rounds = 0
    /\ just_applied = FALSE
    /\ InitUsers
    /\ InitLedger
    /\ InitCases

CheckMaxMode ==
    /\ ~avail_call.made
    /\ avail_call' = [made |-> TRUE,
                      result |-> are_max_mode_models_available(model_status, now)]
    /\ UNCHANGED <<regVars, limVars, quotaVars, ens, boot, late_failed, callVars>>

NextAvailability == CheckMaxMode

SpecAvailability == InitAvailability /\ [][NextAvailability]_vars

\* the Max Mode models the registry holds with a status other than 'OK'
NotOkInRegistry ==
    {m \in MaxModeModels : /\ m \in DOMAIN Statuses(model_status, now)
                           /\ Statuses(model_status, now)[m] # "OK"}

\* C11: are_max_mode_models_available returns false whenever a participant or
\* the arbiter has a non-OK status in the registry, whatever the others have,
\* and true only when none of them has one.
C11_AllOrNothingAvailability ==
    avail_call.made => (avail_call.result <=> NotOkInRegistry = {})

\* one participant FAILED, the other participant and the arbiter 'OK': false
C11_Witness ==
    /\ avail_call.made
    /\ ~avail_call.result
    /\ NotOkInRegistry = {MAX_MODE_PARTICIPANTS[1]}
    /\ \A m \in MaxModeModels \ NotOkInRegistry :
          DictGet(Statuses(model_status, now), m, "absent") = "OK"

(***************************************************************************)
(* The ensemble specification: one Max Mode message past its admission     *)
(* check, from get_max_mode_response to the handler's add_request or error *)
(* reply.                                                                  *)
(***************************************************************************)
\* tasks = [...]; await asyncio.gather(*tasks): every participant is dispatched
EnsDispatch(prompt) ==
    /\ ens.pc = "idle"
    /\ ens' = [ens EXCEPT !.pc = "gather", !.request = prompt]
    /\ UNCHANGED <<regVars, limVars, quotaVars, avail_call, boot, late_failed, callVars>>

\* one participant's call resolves, in any order
PartResolve(m, o) ==
    /\ ens.pc = "gather"
    /\ ~ens.replies[m].done
    /\ ens' = [ens EXCEPT !.replies[m] = [done |-> TRUE, outcome |-> o,
                                          text |-> get_participant_response(o, m)],
                          !.order = Append(@, m)]
    /\ UNCHANGED <<regVars, limVars, quotaVars, avail_call, boot, late_failed, callVars>>

\* gather returns: the replies are counted and either the round fails or the
\* arbiter is called with the meta-prompt
EnsJoin ==
    LET successful_responses ==
            Cardinality({m \in Participants_ : ~StartsWithError(ens.replies[m].text)})
    IN  /\ ens.pc = "gather"
        /\ AllResolved(ens.replies)
        /\ ens' = IF successful_responses = 0
                  THEN [ens EXCEPT !.pc = "failed", !.error = AllFailedError]
                  ELSE [ens EXCEPT !.pc = "arbiter", !.arbiter_calls = @ + 1,
                                   !.prompt = MetaPrompt(ens.request, ens.replies)]
        /\ UNCHANGED <<regVars, limVars, quotaVars, avail_call, boot, late_failed, callVars>>

\* the arbiter's get_simple_response returns or raises
ArbiterResolve(o) ==
    /\ ens.pc = "arbiter"
    /\ o \in {"text", "empty", "api_error", "timeout"}
    /\ ens' = IF o \in RaisingOutcomes
              THEN [ens EXCEPT !.pc = "failed", !.arbiter = o, !.error = ArbiterFailedError]
              ELSE [ens EXCEPT !.pc = "returned", !.arbiter = o,
                               !.result = ReplyText(o, MAX_MODE_ARBITER)]
    /\ UNCHANGED <<regVars, limVars, quotaVars, avail_call, boot, late_failed, callVars>>

\* handle_max_mode_message after the return: add_request, then the answer
EnsRecord ==
    /\ ens.pc = "returned"
    /\ requests' = add_request(requests, TheUser, "max_mode_ensemble", today, TRUE)
    /\ ledger' = [ledger EXCEPT ![today][TRUE] = @ + 1]
    /\ ens' = [ens EXCEPT !.pc = "done", !.recorded = @ + 1, !.reply = "answer"]
    /\ UNCHANGED <<regVars, limVars, today, throttle, fsm, user_details, handlers, events,
                   avail_call, boot, late_failed, callVars>>

\* handle_max_mode_message, except RuntimeError: the error's text is the reply
EnsError ==
    /\ ens.pc = "failed"
    /\ ens' = [ens EXCEPT !.pc = "done", !.reply = ens.error]
    /\ UNCHANGED <<regVars, limVars, quotaVars, avail_call, boot, late_failed, callVars>>

NextEnsemble ==
    \/ \E prompt \in UserPrompts : EnsDispatch(prompt)
    \/ \E m \in Participants_, o \in PartOutcomes : PartResolve(m, o)
    \/ EnsJoin
    \/ \E o \in PartOutcomes : ArbiterResolve(o)
    \/ EnsRecord
    \/ EnsError

SpecEnsemble == InitRegistry /\ [][NextEnsemble]_vars

\* the participants that raised, and those that returned a reply with content
Raised == {m \in Participants_ : ens.replies[m].done /\ ens.replies[m].outcome \in RaisingOutcomes}
Replied ==
    {m \in Participants_ : ens.replies[m].done /\ ens.replies[m].outcome \in {"text", "prefixed"}}
Joined == ens.pc \in {"arbiter", "returned", "failed", "done"}

\* C12: participant failures are isolated: whatever subset of the participants
\* raises, if at least one participant returned a reply with content then no
\* failure of a participant ends the round, every participant that raised is
\* represented by its placeholder, the arbiter is called exactly once and what
\* is returned is the arbiter's text.
C12_ParticipantFailuresIsolated ==
    (Joined /\ Replied # {}) =>
        /\ ens.error # AllFailedError
        /\ ens.arbiter_calls = 1
        /\ \A m \in Raised : StartsWithError(ens.replies[m].text)
        /\ ens.pc \in {"returned", "done"} /\ ens.arbiter \notin RaisingOutcomes
              => ens.result = ReplyText(ens.arbiter, MAX_MODE_ARBITER)

C26_EmptyRepliesCountAsFailed ==
    (Joined /\ \A m \in Participants_ : ens.replies[m].outcome = "empty") =>
        /\ ens.error = AllFailedError
        /\ ens.arbiter_calls = 0

\* C30: the prompt sent to the arbiter holds the user's original prompt and
\* exactly one labelled entry per configured participant, in the order of
\* MAX_MODE_PARTICIPANTS whatever the order of completion, each entry that
\* participant's reply or its error placeholder.
C30_SynthesisPromptInConfiguredOrder ==
    ens.arbiter_calls > 0 =>
        /\ ens.prompt.request = ens.request
        /\ ens.request \in UserPrompts
        /\ Len(ens.prompt.entries) = Len(MAX_MODE_PARTICIPANTS)
        /\ \A i \in 1..Len(MAX_MODE_PARTICIPANTS) :
              LET m == MAX_MODE_PARTICIPANTS[i]
                  e == ens.prompt.entries[i]
              IN  /\ e.model = m
                  /\ IF ens.replies[m].outcome \in RaisingOutcomes
                     THEN StartsWithError(e.text)
                     ELSE e.text = ReplyText(ens.replies[m].outcome, m)

\* the second participant answered first, the first one raised afterwards:
\* the arbiter's prompt lists the first participant's placeholder first
C30_Witness ==
    /\ ens.pc = "returned"
    /\ ens.order = <<MAX_MODE_PARTICIPANTS[2], MAX_MODE_PARTICIPANTS[1]>>
    /\ ens.replies[MAX_MODE_PARTICIPANTS[1]].outcome = "api_error"
    /\ ens.replies[MAX_MODE_PARTICIPANTS[2]].outcome = "text"
    /\ ens.prompt.entries[1].model = MAX_MODE_PARTICIPANTS[1]
    /\ ens.prompt.request = <<"other", "question">>

\* C14: the arbiter is dispatched strictly after every participant call has
\* resolved, whatever the order of completion: the step that calls the arbiter
\* starts from a state with no participant pending, and while the arbiter runs
\* no participant is pending.
C14_ArbiterAfterFullJoin ==
    [][/\ ens'.arbiter_calls > ens.arbiter_calls
             => \A m \in Participants_ : ens.replies[m].done
       /\ ens'.pc = "arbiter" => (\A m \in Participants_ : ens'.replies[m].done)
       /\ ens'.arbiter_calls <= 1]_vars

\* the second participant completes first, with a failure; the arbiter starts
\* once the first has answered too
C14_Witness ==
    /\ ens.pc = "arbiter"
    /\ ens.order = <<MAX_MODE_PARTICIPANTS[2], MAX_MODE_PARTICIPANTS[1]>>
    /\ ens.replies[MAX_MODE_PARTICIPANTS[2]].outcome = "timeout"
    /\ ens.replies[MAX_MODE_PARTICIPANTS[1]].outcome = "text"
    /\ ens.arbiter_calls = 1

\* C15: a failure of the arbiter call fails the whole request with an error
\* other than the all-participants-failed one, whatever the participants
\* returned, and no usage is recorded for the request.
C15_ArbiterFailureDistinct ==
    ens.arbiter \in RaisingOutcomes =>
        /\ ens.pc \in {"failed", "done"}
        /\ ens.error = "arbiter_failed"
        /\ ens.error # AllFailedError
        /\ ens.recorded = 0
        /\ requests = <<>>
        /\ ens.pc = "done" => ens.reply = "arbiter_failed"

\* every participant answered, the arbiter timed out: the user reads the
\* arbiter error and nothing is counted
C15_Witness ==
    /\ ens.pc = "done"
    /\ \A m \in Participants_ : ens.replies[m].outcome = "text"
    /\ ens.arbiter = "timeout"
    /\ ens.reply = "arbiter_failed"
    /\ CountToday(TRUE) = 0

(***************************************************************************)
(* The startup specification: startup_model_check of a fresh process, over *)
(* what the previous process left in the system_state table.  The clock    *)
(* starts at 0, so what was persisted before carries a negative time.      *)
(***************************************************************************)
\* how old the persisted statuses are when the process starts
SnapshotAges == {FRESH_SECONDS \div 2, FRESH_SECONDS, 2 * FRESH_SECONDS}

SnapshotDocs ==
    {[m \in ProbedModels |-> "OK"],
     [m \in ProbedModels |-> IF m = MAX_MODE_ARBITER THEN "Timeout" ELSE "OK"]}

\* the model_status row: never written, or written with a JSON document or
\* other text, under a timestamp or other text
StatusRows ==
    {NoRow} \cup
    {[present |-> TRUE, value |-> v, updated_at |-> ts] :
        v \in {json_dumps(d) : d \in SnapshotDocs} \cup {Unparseable},
        ts \in {isoformat(0 - a) : a \in SnapshotAges} \cup {BadTimestamp}}

ReportRows ==
    {NoRow} \cup
    {[present |-> TRUE, value |-> ReportText(d, 0 - a), updated_at |-> isoformat(0 - a)] :
        d \in SnapshotDocs, a \in {FRESH_SECONDS \div 2}}

InitStartup ==
    /\ model_status = <<>>
    /\ now = 0
    /\ probe_pc = "idle"
    /\ probe_results = EmptyDict
    /\ \E sr \in StatusRows, rr \in ReportRows :
          system_state = [k \in {"model_status", "last_report"} |->
                             IF k = "model_status" THEN sr ELSE rr]
    /\ rounds = 0
    /\ just_applied = FALSE
    /\ InitUsers
    /\ InitLedger
    /\ avail_call = [made |-> FALSE, result |-> FALSE]
    /\ ens = IdleEnsemble
    /\ late_failed = {}
    /\ InitCalls
    /\ boot = [IdleBoot EXCEPT !.pc = "read_status"]

\* a plausible slip: a snapshot of exactly ten minutes still counts as fresh
SnapshotFreshInclusive(row, t) ==
    LET ts == fromisoformat(row.updated_at)
    IN  ts.ok /\ t - ts.value <= FRESH_SECONDS

\* lines 145-147: the timestamp parses and is less than ten minutes back
SnapshotFresh(row, t) ==
    LET ts == fromisoformat(row.updated_at)
    IN  ts.ok /\ t - ts.value < FRESH_SECONDS

\* line 139
BootReadStatus ==
    /\ boot.pc = "read_status"
    /\ boot' = [boot EXCEPT !.pc = "read_report",
                            !.status_state = system_state["model_status"]]
    /\ UNCHANGED <<regVars, limVars, quotaVars, avail_call, ens, late_failed, callVars>>

\* line 140 and what follows it without suspending: the snapshot is adopted
\* into the cache and the function returns, or scheduled_model_test is
\* entered and runs up to its gather
BootReadReport ==
    LET status == boot.status_state
        report == system_state["last_report"]
        adopt == /\ status.present
                 /\ report.present
                 /\ SnapshotFresh(status, now)
                 /\ json_loads(status.value).ok
    IN  /\ boot.pc = "read_report"
        /\ IF adopt
           THEN /\ model_status' =
                      CacheSet(CacheSet(model_status, "statuses",
                                        json_loads(status.value).value,
                                        now, STATUS_TTL, STATUS_MAXSIZE),
                               "last_report", report.value, now, STATUS_TTL, STATUS_MAXSIZE)
                /\ UNCHANGED <<probe_pc, probe_results, rounds>>
           ELSE /\ probe_pc' = "probing"
                /\ probe_results' = EmptyDict
                /\ rounds' = rounds + 1
                /\ model_status' = model_status
        /\ boot' = [boot EXCEPT !.pc = IF adopt THEN "done" ELSE "round",
                                !.report_state = report,
                                !.checked_at = now,
                                !.adopted = adopt]
        /\ just_applied' = FALSE
        /\ UNCHANGED <<now, system_state, limVars, quotaVars, avail_call, ens, late_failed, callVars>>

\* line 158 returns: scheduled_model_test has written both rows
BootReturn ==
    /\ boot.pc = "round"
    /\ probe_pc = "idle"
    /\ boot' = [boot EXCEPT !.pc = "done"]
    /\ UNCHANGED <<regVars, limVars, quotaVars, avail_call, ens, late_failed, callVars>>

NextStartup ==
    \/ Tick
    \/ BootReadStatus
    \/ BootReadReport
    \/ \E m \in ProbedModels, st \in ProbeStatuses : ProbeResult(m, st)
    \/ ProbeApply
    \/ PersistStatus
    \/ PersistReport
    \/ BootReturn

SpecStartup == InitStartup /\ [][NextStartup]_vars

\* C18: startup_model_check runs a full probe round if and only if the table
\* holds no usable fresh snapshot.  A model_status row that is present, has its
\* last_report companion, parses and is less than ten minutes old at the check
\* is adopted and no probe is made; a row ten minutes old or older, missing,
\* without companion or unparseable leads to exactly one round, which probes
\* every model before the function returns.
C18_ProbeRoundIffNoFreshSnapshot ==
    LET s == boot.status_state
        usable == /\ s.present
                  /\ boot.report_state.present
                  /\ s.updated_at.iso
                  /\ s.value.json
                  /\ boot.checked_at - s.updated_at.t < 10 * 60
    IN  /\ rounds <= 1
        /\ boot.pc \in {"read_status", "read_report"}
              => (rounds = 0 /\ probe_results = EmptyDict)
        /\ boot.pc \in {"round", "done"} =>
              IF usable
              THEN /\ boot.adopted
                   /\ boot.pc = "done"
                   /\ rounds = 0
                   /\ probe_results = EmptyDict
              ELSE /\ ~boot.adopted
                   /\ rounds = 1
                   /\ boot.pc = "done" => DOMAIN probe_results = ProbedModels

\* C28: when startup_model_check adopts a fresh persisted snapshot the
\* registry holds it afterwards: every model whose persisted status is not
\* 'OK' is unavailable, and the report the admin reads is the persisted
\* last_report text.
C28_AdoptedSnapshotInRegistry ==
    [][(boot.pc = "read_report" /\ boot'.adopted) =>
          LET persisted == json_loads(boot.status_state.value).value
          IN  /\ \A m \in DOMAIN persisted :
                    persisted[m] # "OK" => ~is_model_available(model_status', m, now')
              /\ CacheGet(model_status', "last_report", now', NoRow)
                    = system_state["last_report"].value]_vars

\* a snapshot written five minutes before the check is adopted without a probe
C18_Witness ==
    /\ boot.pc = "done"
    /\ boot.adopted
    /\ boot.checked_at - boot.status_state.updated_at.t = 5 * 60
    /\ rounds = 0
    /\ CacheHas(model_status, "last_report", now)

(***************************************************************************)
(* The recency specification: one probe round and the handlers' runtime    *)
(* failures, with the order of the observations of each model kept.        *)
(***************************************************************************)
\* a handler's backend call to m fails and the handler calls
\* set_model_failed_in_cache(m); late_failed keeps the marks that come after
\* the round in flight has m's probe result
RuntimeFailure(m) ==
    /\ model_status' = set_model_failed_in_cache(model_status, m, now)
    /\ late_failed' = IF probe_pc = "probing" /\ m \in DOMAIN probe_results
                      THEN late_failed \cup {<<m, rounds>>} ELSE late_failed
    /\ just_applied' = FALSE
    /\ UNCHANGED <<now, probe_pc, probe_results, system_state, rounds>>
    /\ UNCHANGED <<limVars, quotaVars, avail_call, ens, boot, callVars>>

NextRecency ==
    \/ \E m \in ProbedModels : RuntimeFailure(m)
    \/ ProbeStart
    \/ \E m \in ProbedModels, st \in ProbeStatuses : ProbeResult(m, st)
    \/ ProbeApply
    \/ PersistStatus
    \/ PersistReport

SpecRecency == InitRegistry /\ [][NextRecency]_vars

\* C19: the registry keeps the most recent observation of every model: a
\* runtime failure of m observed after the round in flight got m's probe result
\* is not overwritten when that round applies its results, so m is still
\* unavailable after the round's cache write.
C19_LaterObservationKept ==
    [][(probe_pc = "probing" /\ probe_pc' = "persist_status") =>
          \A m \in ProbedModels :
              <<m, rounds>> \in late_failed
                  => ~is_model_available(model_status', m, now')]_vars

(***************************************************************************)
(* The profile cache specification: cached reads of the users' rows, the   *)
(* writes that invalidate them and the cache timer.                        *)
(***************************************************************************)
\* handle_user_action 'block' / 'unblock', from the card of a user who was
\* found: the row is written, then the user's cache entry is deleted
BlockUser(u, flag) ==
    /\ users[u].present
    /\ users' = [users EXCEPT ![u].blocked = flag]
    /\ user_details' = invalidate_user_cache(user_details, u)
    /\ cache_call' = [cache_call EXCEPT ![u].invalidated = TRUE,
                                        ![u].started = FALSE,
                                        ![u].made = FALSE,
                                        ![u].overtaken = (cache_call[u].pc = "fetched")]
    /\ UNCHANGED <<regVars, limits_call, requests, today, throttle, fsm, handlers, events,
                   ledger, avail_call, ens, boot, late_failed, card, taskVars>>

\* get_user_details_cached(u), from whichever handler, up to its return on a
\* hit or to its await of db.get_user_details on a miss.  The history keeps
\* what the call returned and read, the store's row when it was called, whether
\* it is the first call since an invalidation (first) and whether it follows a
\* call made since that invalidation less than the time-to-live ago (follows).
GetLookup(u) ==
    LET last == cache_call[u]
        hit == CacheHas(user_details, u, now)
        call == [last EXCEPT !.store = users[u], !.at = now,
                             !.first = last.invalidated /\ ~last.started,
                             !.follows = last.invalidated /\ last.made
                                            /\ now - last.at < USER_TTL,
                             !.previous = last.details,
                             !.started = TRUE]
    IN  /\ last.pc = "idle"
        /\ cache_call' = [cache_call EXCEPT ![u] =
              IF hit
              THEN [call EXCEPT !.returned = TRUE, !.made = TRUE, !.reads = 0,
                                !.details = CacheGet(user_details, u, now, NoRow)]
              ELSE [call EXCEPT !.returned = FALSE, !.pc = "fetched",
                                !.fetched = users[u]]]
        /\ UNCHANGED <<regVars, limVars, quotaVars, avail_call, ens, boot, late_failed, card, taskVars>>

\* the store read has returned: the row is put into the cache and returned
GetStore(u) ==
    LET call == cache_call[u]
    IN  /\ call.pc = "fetched"
        /\ user_details' = IF call.fetched.present
                           THEN CacheSet(user_details, u, call.fetched, now,
                                         USER_TTL, USER_MAXSIZE)
                           ELSE user_details
        /\ cache_call' = [cache_call EXCEPT ![u] =
              [call EXCEPT !.pc = "idle", !.reads = 1, !.details = call.fetched,
                           !.returned = ~call.overtaken, !.made = ~call.overtaken,
                           !.overtaken = FALSE]]
        /\ UNCHANGED <<regVars, limVars, requests, today, throttle, fsm, handlers, events,
                       ledger, avail_call, ens, boot, late_failed, card, taskVars>>

NextCache ==
    \/ \E u \in Users : StartBot(u)
    \/ \E u \in Users, flag \in BOOLEAN : BlockUser(u, flag)
    \/ \E u \in Users : GetLookup(u)
    \/ \E u \in Users : GetStore(u)
    \/ Tick

SpecCache == InitRegistry /\ [][NextCache]_vars

\* C34: the profile cache never keeps a pre-write row after a write: for every
\* interleaving of get_user_details_cached(u) with a profile write followed
\* by invalidate_user_cache(u), once all of them have completed the cache has
\* no entry for u or holds the row as written.
C34_NoPreWriteRowCached ==
    \A u \in Users :
        (cache_call[u].pc = "idle" /\ CacheHas(user_details, u, now))
            => CacheGet(user_details, u, now, NoRow) = users[u]

\* C21: the profile cache is read-through: the first get_user_details_cached
\* after invalidate_user_cache makes exactly one store read and returns the
\* store's current row; a following call, with no invalidation in between and
\* inside the time-to-live, makes no store read and returns the same row.
C21_ReadThroughCache ==
    \A u \in Users :
        LET g == cache_call[u]
        IN  g.returned =>
              /\ g.first => (g.reads = 1 /\ g.details = g.store)
              /\ g.follows => (g.reads = 0 /\ g.details = g.previous)

(***************************************************************************)
(* The tier readers specification: the administrator's views of the users  *)
(* table, next to the writes and the limit resolution of SpecLimits.       *)
(***************************************************************************)
\* format_user_card for a user who is found: the plan comes from the row read
\* at line 41, the limits from get_user_limits, which writes the lazy downgrade
ShowUserCard(u) ==
    LET r == get_user_limits(users, u)
    IN  /\ users[u].present
        /\ card' = [NoCard EXCEPT !.kind = "card", !.user = u,
                                  !.stored = users[u].level,
                                  !.expired = (users[u].sub_end = "past"),
                                  !.plan = users[u].level]
        /\ users' = r.users
        /\ limits_call' = [made |-> TRUE, user |-> u, row |-> users[u],
                           daily |-> r.daily, max_mode |-> r.max_mode]
        /\ UNCHANGED <<regVars, quotaVars, avail_call, ens, boot, late_failed, cache_call, taskVars>>

\* admin_main_actions 'stats': get_subscription_stats counts the rows per
\* stored subscription_level; lapsed keeps how many of them had expired
SubscriptionStats ==
    /\ card' = [NoCard EXCEPT !.kind = "stats",
                              !.stats = [l \in 0..3 |->
                                  Cardinality({u \in Users : /\ users[u].present
                                                             /\ users[u].level = l})],
                              !.lapsed = [l \in 0..3 |->
                                  Cardinality({u \in Users : /\ users[u].present
                                                             /\ users[u].level = l
                                                             /\ l > 0
                                                             /\ users[u].sub_end = "past"})]]
    /\ UNCHANGED <<regVars, limVars, quotaVars, avail_call, ens, boot, late_failed,
                   cache_call, taskVars>>

NextReaders ==
    \/ NextLimits
    \/ \E u \in Users : ShowUserCard(u)
    \/ SubscriptionStats

SpecReaders == InitRegistry /\ [][NextReaders]_vars

\* C22: a stored tier above 0 whose expiry has passed counts as tier 0 for
\* every reader: limit resolution gives the tier 0 limits and writes tier 0
\* back, the administrator's user card shows the plan of tier 0, and the
\* subscription statistics count the user under tier 0.
C22_ExpiredTierReadAsFree ==
    [][/\ (limits_call' # limits_call /\ limits_call'.user \notin ADMIN_IDS
             /\ limits_call'.row.present /\ EffectiveTier(limits_call'.row) = 0)
            => /\ limits_call'.max_mode = Limit(LIMITS[0].max_mode)
               /\ users'[limits_call'.user].level = 0
       /\ (card' # card /\ card'.kind = "card" /\ card'.user \notin ADMIN_IDS
             /\ card'.stored > 0 /\ card'.expired)
            => card'.plan = 0
       /\ (card' # card /\ card'.kind = "stats")
            => \A l \in 1..3 : card'.lapsed[l] = 0]_vars


\* ---------------------------------------------------------------------------
\* The waiting indicator of a request handler: animate_waiting runs as a task
\* next to the dispatch; the handler calls animation_task.cancel() in its try
\* body and in its except clauses.
\* ---------------------------------------------------------------------------

\* the exception classes the dispatch or a later step can raise into the handler
\* (the await points take asyncio.CancelledError when the handler task is cancelled)
Raisable == {"APIError", "RuntimeError", "ClientError", "CancelledError"}

\* the builtin hierarchy: CancelledError derives from BaseException only
Bases(e) ==
    CASE e = "APIError" -> {"APIError", "Exception", "BaseException"}
      [] e = "RuntimeError" -> {"RuntimeError", "Exception", "BaseException"}
      [] e = "ClientError" -> {"ClientError", "Exception", "BaseException"}
      [] e = "CancelledError" -> {"CancelledError", "BaseException"}

\* the except clauses around the dispatch, in order
ExceptClauses(h) ==
    CASE h = "handle_chat_message" -> <<{"APIError", "RuntimeError"}, {"Exception"}>>
      [] h = "handle_max_mode_message" -> <<{"RuntimeError"}, {"Exception"}>>
      [] h = "generate_image_handler" -> <<{"Exception"}>>

\* the clause that takes exception e, 0 when none does
MatchingClause(h, e) ==
    LET hits == {i \in 1..Len(ExceptClauses(h)) : ExceptClauses(h)[i] \cap Bases(e) # {}}
    IN  IF hits = {} THEN 0 ELSE CHOOSE i \in hits : \A j \in hits : i <= j

\* Task.cancel(): a task that already ended stays as it is
Cancel(task) == IF task = "running" THEN "cancelled" ELSE task

\* msg = await message.answer(...); animation_task = asyncio.create_task(...)
StartIndicator(h) ==
    /\ animation_task[h].pc = "idle"
    /\ animation_task' = [animation_task EXCEPT ![h] =
                              [pc |-> "dispatch", task |-> "running", exit |-> "none"]]
    /\ UNCHANGED <<regVars, limVars, quotaVars, avail_call, ens, boot, late_failed,
                   cache_call, card, job, sessVars>>

\* animate_waiting: edit_text raises and the loop breaks by itself
IndicatorBreaks(h) ==
    /\ animation_task[h].task = "running"
    /\ animation_task' = [animation_task EXCEPT ![h].task = "ended"]
    /\ UNCHANGED <<regVars, limVars, quotaVars, avail_call, ens, boot, late_failed,
                   cache_call, card, job, sessVars>>

\* the dispatch returns: animation_task.cancel() is the next statement of the
\* try body, the later steps (usage record, edit of the reply) follow
DispatchReturns(h) ==
    /\ animation_task[h].pc = "dispatch"
    /\ animation_task' = [animation_task EXCEPT ![h].pc = "later",
                                                ![h].task = Cancel(@)]
    /\ UNCHANGED <<regVars, limVars, quotaVars, avail_call, ens, boot, late_failed,
                   cache_call, card, job, sessVars>>

\* an exception arrives at an await of the try body: the first matching except
\* clause cancels the indicator; with no matching clause it leaves the handler
Raise(h, e) ==
    /\ animation_task[h].pc \in {"dispatch", "later"}
    /\ animation_task' = [animation_task EXCEPT
           ![h].pc = "done",
           ![h].task = IF MatchingClause(h, e) = 0 THEN @ ELSE Cancel(@),
           ![h].exit = IF MatchingClause(h, e) = 0 THEN "propagated"
                       ELSE IF animation_task[h].pc = "later" THEN "later_failure"
                       ELSE "backend_failure"]
    /\ UNCHANGED <<regVars, limVars, quotaVars, avail_call, ens, boot, late_failed,
                   cache_call, card, job, sessVars>>

\* the later steps complete and the handler returns
HandlerReturns(h) ==
    /\ animation_task[h].pc = "later"
    /\ animation_task' = [animation_task EXCEPT ![h].pc = "done", ![h].exit = "success"]
    /\ UNCHANGED <<regVars, limVars, quotaVars, avail_call, ens, boot, late_failed,
                   cache_call, card, job, sessVars>>

\* the next update of the same kind is handled
NextUpdate(h) ==
    /\ animation_task[h].pc = "done"
    /\ animation_task' = [animation_task EXCEPT ![h] = NoIndicator]
    /\ UNCHANGED <<regVars, limVars, quotaVars, avail_call, ens, boot, late_failed,
                   cache_call, card, job, sessVars>>

NextIndicator ==
    \E h \in IndicatorHandlers :
        \/ StartIndicator(h)
        \/ IndicatorBreaks(h)
        \/ DispatchReturns(h)
        \/ \E e \in Raisable : Raise(h, e)
        \/ HandlerReturns(h)
        \/ NextUpdate(h)

SpecIndicator == InitRegistry /\ [][NextIndicator]_vars

\* C23: no handler terminates while its waiting-indicator task is still running
\* uncancelled, whatever the exit path (success, backend failure, failure of a
\* later step, any exception or cancellation of the handler)
C23_IndicatorCancelledOnExit ==
    \A h \in IndicatorHandlers :
        animation_task[h].pc = "done" => animation_task[h].task # "running"

\* ---------------------------------------------------------------------------
\* The interval job: the scheduler runs scheduled_model_test every 10 minutes,
\* one instance at a time; the probes of a round run under asyncio.gather.
\* ---------------------------------------------------------------------------

\* what a probe's request can end with: a reply, or an exception class
\* (openai: APIStatusError, APIConnectionError and APITimeoutError derive from
\* APIError, and the client reports its timeout=20.0 as APITimeoutError;
\* TimeoutError is asyncio.TimeoutError, which the image probe's aiohttp raises)
ChatProbeEnds == {"ok", "APIStatusError", "APIConnectionError", "APITimeoutError",
                  "ValueError"}
ImageProbeEnds == {"ok", "http_error", "TimeoutError", "ClientError"}

IsAPIError(o) == o \in {"APIStatusError", "APIConnectionError", "APITimeoutError"}

\* only APIStatusError carries the attribute status_code
HasStatusCode(o) == o = "APIStatusError"

\* test_chat_model: the status it returns, or the exception that leaves it.
\* The APIError clause formats e.status_code; an AttributeError raised inside
\* an except clause is not taken by the clauses after it.
test_chat_model(o) ==
    CASE o = "ok" -> [raised |-> "none", status |-> "OK"]
      [] IsAPIError(o) -> IF HasStatusCode(o)
                          THEN [raised |-> "none", status |-> "API Error 500"]
                          ELSE [raised |-> "AttributeError", status |-> "none"]
      [] o = "TimeoutError" -> [raised |-> "none", status |-> "Timeout"]
      [] OTHER -> [raised |-> "none", status |-> "Error: ValueError"]

\* test_image_model
test_image_model(o) ==
    CASE o = "ok" -> [raised |-> "none", status |-> "OK"]
      [] o = "http_error" -> [raised |-> "none", status |-> "Error 500"]
      [] o = "TimeoutError" -> [raised |-> "none", status |-> "Timeout"]
      [] OTHER -> [raised |-> "none", status |-> "Error: ClientError"]

ProbeOutcomes(m) == IF m \in TextModels THEN ChatProbeEnds ELSE ImageProbeEnds

RunProbe(m, o) == IF m \in TextModels THEN test_chat_model(o) ELSE test_image_model(o)

\* the scheduler after a run of the job raised: the executor logs the
\* exception and the job stays scheduled
JobAfterErrorRemoved == "removed"

JobAfterError == "scheduled"

\* the interval elapses: the job is submitted unless an instance is running
IntervalFires ==
    /\ job.state = "scheduled"
    /\ probe_pc = "idle"
    /\ probe_pc' = "probing"
    /\ probe_results' = EmptyDict
    /\ rounds' = IF rounds < MaxRounds THEN rounds + 1 ELSE rounds
    /\ just_applied' = FALSE
    /\ UNCHANGED <<model_status, now, system_state, limVars, quotaVars, avail_call, ens,
                   boot, late_failed, cache_call, card, taskVars>>

\* one probe of the gather ends: its status joins the results, or its
\* exception leaves gather and scheduled_model_test, ending the run
Probe(m, o) ==
    LET r == RunProbe(m, o)
    IN  /\ probe_pc = "probing"
        /\ m \notin DOMAIN probe_results
        /\ IF r.raised = "none"
           THEN /\ probe_results' = DictPut(probe_results, m, r.status)
                /\ UNCHANGED <<probe_pc, job>>
           ELSE /\ probe_results' = EmptyDict
                /\ probe_pc' = "idle"
                /\ job' = [state |-> JobAfterError, last |-> "failed"]
        /\ just_applied' = FALSE
        /\ UNCHANGED <<model_status, now, system_state, rounds, limVars, quotaVars,
                       avail_call, ens, boot, late_failed, cache_call, card,
                       animation_task, sessVars>>

\* line 126 as the last statement of a run of the job
JobCompletes ==
    /\ probe_pc = "persist_report"
    /\ system_state' = set_system_state(system_state, "last_report",
                                        ReportText(probe_results, now), now)
    /\ probe_pc' = "idle"
    /\ just_applied' = FALSE
    /\ job' = [job EXCEPT !.last = "completed"]
    /\ UNCHANGED <<model_status, now, probe_results, rounds, limVars, quotaVars,
                   avail_call, ens, boot, late_failed, cache_call, card, animation_task, sessVars>>

NextSchedule ==
    \/ IntervalFires
    \/ \E m \in ProbedModels : \E o \in ProbeOutcomes(m) : Probe(m, o)
    \/ ProbeApply
    \/ PersistStatus
    \/ JobCompletes

SpecSchedule == InitRegistry /\ [][NextSchedule]_vars

\* the interval trigger fires for as long as the event loop runs
SpecScheduleFair == SpecSchedule /\ WF_vars(IntervalFires)

\* C24: a run of the probe job that ends with an exception leaves the job
\* scheduled, and a new probe round is started after every failed run
C24_ProbeRestartsAfterFailure ==
    /\ [](job.state = "scheduled")
    /\ (job.last = "failed" /\ probe_pc = "idle") ~> (probe_pc = "probing")

\* a round runs after a run that failed
C24_Witness == job.last = "failed" /\ probe_pc = "probing"

\* C29: a probe round gives one status per probed model, and no failure of a
\* single probe ends the round: a run of the job never ends before its
\* results are applied
C29_ProbeFailureBecomesStatus ==
    [][/\ (probe_pc = "probing" /\ probe_pc' # "probing")
            => (probe_pc' = "persist_status" /\ DOMAIN probe_results' = ProbedModels)
       /\ \A m \in ProbedModels :
            (m \notin DOMAIN probe_results /\ m \in DOMAIN probe_results')
                => probe_results'[m] \in {"OK", "API Error 500", "Timeout",
                                          "Error: ValueError", "Error 500",
                                          "Error: ClientError"}]_vars

\* ---------------------------------------------------------------------------
\* get_user_level step by step: the row is read (await db.get_user), and for
\* an expired subscription the downgrade is written (await
\* db.update_subscription(user_id, 0)); other handlers run in between.
\* ---------------------------------------------------------------------------

\* lines 54-60: the read; admins and unknown users return at once
LevelRead(u) ==
    /\ level_call[u].pc = "idle"
    /\ u \notin ADMIN_IDS
    /\ users[u].present
    /\ level_call' = [level_call EXCEPT ![u] = [pc |-> "read", row |-> users[u]]]
    /\ UNCHANGED <<regVars, limVars, quotaVars, avail_call, ens, boot, late_failed,
                   cache_call, card, animation_task, job, turn, fsm_history>>

\* lines 61-72 on the row that was read: the downgrade write or the return
LevelWrite(u) ==
    LET row == level_call[u].row
    IN  /\ level_call[u].pc = "read"
        /\ users' = IF row.sub_end # "none" /\ row.level > 0 /\ row.sub_end = "past"
                    THEN update_subscription(users, u, 0)
                    ELSE users
        /\ level_call' = [level_call EXCEPT ![u].pc = "idle"]
        /\ UNCHANGED <<regVars, limits_call, quotaVars, avail_call, ens, boot, late_failed,
                       cache_call, card, animation_task, job, turn, fsm_history>>

NextExpiry ==
    \/ \E u \in Users : StartBot(u)
    \/ \E u \in Users, level \in 1..3 : GrantSubscription(u, level)
    \/ \E u \in Users : SubscriptionLapses(u)
    \/ \E u \in Users : LevelRead(u)
    \/ \E u \in Users : LevelWrite(u)

SpecExpiry == InitRegistry /\ [][NextExpiry]_vars

\* C33: a lazy expiry downgrade never overwrites a newer subscription: when a
\* grant has completed while a get_user_level call that read the expired row
\* was in flight, the call's write leaves the granted tier stored.
C33_DowngradeKeepsNewerGrant ==
    [][\A u \in Users :
          (level_call[u].pc = "read" /\ level_call'[u].pc = "idle"
             /\ users[u].level > 0 /\ users[u].sub_end = "future")
            => users'[u].level = users[u].level]_vars


(***************************************************************************)
(* config.py MODELS / IMAGE_MODELS and the menus that read them: the       *)
(* models a tier grants.                                                   *)
(***************************************************************************)
\* config.py:62-66 MODELS by list name, over the models of this development
MODELS ==
    [free |-> {"gpt-4.1", "chatgpt-4o-latest"},
     standard |-> {"gpt-4.1", "chatgpt-4o-latest"},
     premium |-> {"gpt-4.1", "chatgpt-4o-latest", "grok-3", "deepseek-r1-0528"}]

\* chat.py:94-96 accessible_models, and start_image_gen_handler's user_level < 2
accessible_models(user_level) ==
    MODELS.free
      \cup (IF user_level >= 1 THEN MODELS.standard ELSE {})
      \cup (IF user_level >= 2 THEN MODELS.premium \cup IMAGE_MODELS ELSE {})

\* C35: every single-model dispatch (chat, group text, group image, image
\* generation) targets a model that the user's effective tier grants at the
\* moment of the dispatch.
C35_DispatchWithinTierGrant ==
    [][\A p \in Procs :
          (handlers[p].pc = "call" /\ handlers'[p].calls # {})
            => handlers'[p].model
                 \in accessible_models(EffectiveTier(users[TheUser]))]_vars


(***************************************************************************)
(* Max Mode by tier: activate_max_mode and handle_max_mode_message read    *)
(* the Max Mode limit of get_user_limits, which is 0 under tier 3.         *)
(***************************************************************************)
\* who asks for the ensemble: tier 3 running, tier 3 whose subscription_end
\* has passed and tier 2, each inside a Max Mode session opened earlier; tier 1
\* and a free user with the bonus, from the menu
MaxModeStarts ==
    {<<[NewUserRow EXCEPT !.verified = TRUE, !.level = 3, !.sub_end = "future"],
       MaxModeSession>>,
     <<[NewUserRow EXCEPT !.verified = TRUE, !.level = 3, !.sub_end = "past"],
       MaxModeSession>>,
     <<[NewUserRow EXCEPT !.verified = TRUE, !.level = 2, !.sub_end = "future"],
       MaxModeSession>>,
     <<[NewUserRow EXCEPT !.verified = TRUE, !.level = 1, !.sub_end = "future"],
       NoSession>>,
     <<[NewUserRow EXCEPT !.verified = TRUE, !.bonus = TRUE], NoSession>>}

SpecReserved == InitQuotaFrom(MaxModeStarts) /\ [][NextQuota]_vars

\* C36: the ensemble is reserved to tier 3.  A user whose effective tier is
\* below 3 has no ensemble call dispatched and no Max Mode usage recorded, is
\* never told that Max Mode is activated, and every activation and every Max
\* Mode message of such a user that reaches the admission check is rejected.
C36_EnsembleReservedToTier3 ==
    EffectiveTier(users[TheUser]) < 3 =>
        \A p \in Procs :
            handlers[p].kind \in MaxKinds =>
                /\ handlers[p].calls = {}
                /\ handlers[p].recorded = 0
                /\ handlers[p].verdict # "admitted"
                /\ handlers[p].reply \notin {"activated", "answer"}
                /\ handlers[p].pc \notin {"participants", "arbiter", "record"}

\* a Max Mode message of a user whose tier 3 has expired inside the open
\* session is rejected at the admission check
C36_Witness ==
    \E p \in Procs :
        /\ handlers[p].kind = "max_msg"
        /\ handlers[p].verdict = "rejected"
        /\ EffectiveTier(users[TheUser]) = 0
        /\ handlers[p].calls = {}


(***************************************************************************)
(* One request after its admission: handle_chat_message (chat.py:175-201), *)
(* handle_max_mode_message (chat.py:276-300), generate_image_handler       *)
(* (image_gen.py:94-126) and the group triggers (group.py:62-78, 120-155). *)
(* Each await inside the try block is a step that returns or raises; a     *)
(* message is the pair of its role and the number of its request.          *)
(***************************************************************************)
\* chat.py:184  history[-10:]
HISTORY_WINDOW == 10

\* requests followed from the start, and answered exchanges the chat may hold
\* already when the first of them arrives
MaxTurns == 2
PriorExchanges == 4

TurnKinds == {"chat", "group_text", "group_image", "image", "max_msg"}

\* how an await after the backend call ends
StepEnds == {"ok", "raises"}

UserMessage(i) == [role |-> "user", turn |-> i]
AssistantMessage(i) == [role |-> "assistant", turn |-> i]

RECURSIVE Earlier(_)
\* the history k answered requests leave, numbered 1-k .. 0
Earlier(k) ==
    IF k = 0 THEN <<>>
    ELSE <<UserMessage(1 - k), AssistantMessage(1 - k)>> \o Earlier(k - 1)

\* history[-10:]
LastWindow(h) ==
    IF Len(h) <= HISTORY_WINDOW THEN h
    ELSE SubSeq(h, Len(h) - HISTORY_WINDOW + 1, Len(h))

\* history.pop()
Pop(h) == SubSeq(h, 1, Len(h) - 1)

\* a tier 3 subscriber inside a chat, a Max Mode or an image session; the chat
\* is new or holds PriorExchanges answered requests of today
InitTurn ==
    /\ model_status = <<>>
    /\ now = 0
    /\ probe_pc = "idle"
    /\ probe_results = EmptyDict
    /\ system_state = [k \in {"model_status", "last_report"} |-> NoRow]
    /\ rounds = 0
    /\ just_applied = FALSE
    /\ limits_call = [made |-> FALSE]
    /\ users = [u \in Users |->
                  IF u = TheUser
                  THEN [NewUserRow EXCEPT !.verified = TRUE, !.level = 3,
                                          !.sub_end = "future"]
                  ELSE NoRow]
    /\ fsm \in {ChatSession, MaxModeSession, ImagePromptSession}
    /\ \E k \in {0, PriorExchanges} :
          /\ fsm_history = IF fsm.state = "Chat" THEN Earlier(k) ELSE <<>>
          /\ requests = Rows(TheUser, "gpt-4.1", FALSE, k)
          /\ ledger = [d \in 0..MaxDays |->
                         [m \in Modes |-> IF d = 0 /\ ~m THEN k ELSE 0]]
    /\ today = 0
    /\ throttle = {}
    /\ user_details = <<>>
    /\ handlers = [p \in Procs |-> IdleHandler]
    /\ events = 0
    /\ avail_call = [made |-> FALSE, result |-> FALSE]
    /\ ens = IdleEnsemble
    /\ boot = IdleBoot
    /\ late_failed = {}
    /\ InitTasks
    /\ turn = NoTurn

\* what no step of a request writes
turnRest == <<now, probe_pc, probe_results, system_state, rounds, just_applied,
              limits_call, today, throttle, handlers, events, avail_call, ens, boot,
              late_failed, cache_call, card, animation_task, job, level_call>>

\* the handler up to its try block: the request passes the blocked, limit and
\* availability checks, the indicator message is sent, the image handler has
\* cleared the session, the chat handler has appended the user's message
TurnBegin(kind) ==
    LET row == users[TheUser]
        lim == get_user_limits(users, TheUser)
        n == get_user_requests_today(requests, TheUser, today, RecordedMode(kind))
        model == CASE kind = "chat" -> fsm.model
                   [] kind = "image" -> fsm.image_model
                   [] kind = "group_text" ->
                        IF row.last_model = "none" THEN DEFAULT_TEXT_MODEL
                        ELSE row.last_model
                   [] kind = "group_image" ->
                        IF row.last_image_model = "none" THEN DEFAULT_IMAGE_MODEL
                        ELSE row.last_image_model
                   [] OTHER -> "max_mode_ensemble"
        i == turn.seq + 1
    IN  /\ turn.pc = "idle"
        /\ turn.seq < MaxTurns
        /\ Routed(kind, fsm)
        /\ row.present /\ row.verified /\ ~row.blocked
        /\ ~LimitReached(n, IF kind = "max_msg" THEN lim.max_mode ELSE lim.daily)
        /\ IF kind = "max_msg" THEN are_max_mode_models_available(model_status, now)
           ELSE is_model_available(model_status, model, now)
        /\ users' = lim.users
        /\ fsm' = IF kind = "image" THEN NoSession ELSE fsm
        /\ fsm_history' = IF kind = "image" THEN <<>> ELSE fsm_history
        /\ turn' = [NoTurn EXCEPT
                      !.pc = "backend", !.kind = kind, !.model = model, !.seq = i,
                      !.before = IF kind = "chat" THEN fsm_history ELSE <<>>,
                      !.history = IF kind = "chat"
                                  THEN Append(fsm_history, UserMessage(i)) ELSE <<>>]
        /\ UNCHANGED <<model_status, requests, ledger, user_details, turnRest>>

\* the except clause (in the image handlers also the non-200 branch) that the
\* failure of step reaches: chat marks the model on APIError or RuntimeError and
\* pops the history it then stores, the image handlers mark the model on
\* everything, group text and Max Mode only answer
Fails(step, exc) ==
    LET marks == CASE turn.kind = "chat" -> exc = "api_error"
                   [] turn.kind \in ImageKinds -> TRUE
                   [] OTHER -> FALSE
        h == IF turn.kind = "chat" THEN Pop(turn.history) ELSE turn.history
    IN  /\ model_status' = IF marks
                           THEN set_model_failed_in_cache(model_status, turn.model, now)
                           ELSE model_status
        /\ fsm_history' = IF turn.kind = "chat" THEN h ELSE fsm_history
        /\ turn' = [turn EXCEPT !.pc = "idle", !.history = h, !.marked = marks,
                                !.failed = step, !.reply = "error"]

\* get_simple_response, get_max_mode_response or session.post returns or fails;
\* the chat handler appends the answer and stores history[-10:]
Backend(o) ==
    LET text == turn.kind \notin ImageKinds
        r == get_user_details_cached(user_details, users, TheUser, now)
        h == Append(turn.history, AssistantMessage(turn.seq))
    IN  /\ turn.pc = "backend"
        /\ o \in (IF text THEN TextOutcomes ELSE ImageOutcomes)
        /\ user_details' = IF text THEN r.cache ELSE user_details
        /\ IF o = "ok"
           THEN /\ turn' = IF turn.kind = "chat"
                           THEN [turn EXCEPT !.pc = "count", !.history = h]
                           ELSE [turn EXCEPT !.pc = IF text THEN "count" ELSE "body"]
                /\ fsm_history' = IF turn.kind = "chat" THEN LastWindow(h)
                                  ELSE fsm_history
                /\ model_status' = model_status
           ELSE Fails("backend", o)
        /\ UNCHANGED <<users, requests, ledger, fsm, turnRest>>

\* image handlers after a 200: response.json() and data['data'][0]['url']
ReadBody(e) ==
    /\ turn.pc = "body"
    /\ e \in StepEnds
    /\ IF e = "ok"
       THEN /\ turn' = [turn EXCEPT !.pc = "count"]
            /\ UNCHANGED <<model_status, fsm_history>>
       ELSE Fails("body", "other_error")
    /\ UNCHANGED <<users, requests, ledger, fsm, user_details, turnRest>>

\* await db.add_request(...)
Count(e) ==
    LET mode == RecordedMode(turn.kind)
    IN  /\ turn.pc = "count"
        /\ e \in StepEnds
        /\ IF e = "ok"
           THEN /\ requests' = add_request(requests, TheUser, turn.model, today, mode)
                /\ ledger' = [ledger EXCEPT ![today][mode] = @ + 1]
                /\ turn' = [turn EXCEPT !.pc = "deliver", !.counted = TRUE]
                /\ UNCHANGED <<model_status, fsm_history>>
           ELSE /\ Fails("count", "other_error")
                /\ UNCHANGED <<requests, ledger>>
        /\ UNCHANGED <<users, fsm, user_details, turnRest>>

\* the answer to the user: msg.edit_text(response_text + footer), in the image
\* handlers msg.delete() and answer_photo / reply_photo
Deliver(e) ==
    /\ turn.pc = "deliver"
    /\ e \in StepEnds
    /\ IF e = "ok"
       THEN /\ turn' = [turn EXCEPT !.pc = "idle", !.reply = "answer"]
            /\ UNCHANGED <<model_status, fsm_history>>
       ELSE Fails("deliver", "other_error")
    /\ UNCHANGED <<users, requests, ledger, fsm, user_details, turnRest>>

NextTurn ==
    \/ \E kind \in TurnKinds : TurnBegin(kind)
    \/ \E o \in TextOutcomes \cup ImageOutcomes : Backend(o)
    \/ \E e \in StepEnds : ReadBody(e)
    \/ \E e \in StepEnds : Count(e)
    \/ \E e \in StepEnds : Deliver(e)

SpecTurn == InitTurn /\ [][NextTurn]_vars

\* C37: whenever the request's usage has been recorded, the final reply of
\* the request is the model's answer: no request that add_request counted ends
\* with an error reply.
C37_CountedRequestGetsAnswer ==
    (turn.pc = "idle" /\ turn.counted) => turn.reply = "answer"


\* C38: a model is marked failed only when the backend call failed: a request
\* whose handler called set_model_failed_in_cache failed at the call itself,
\* never at a later step (reading the body, recording the usage, delivering
\* the answer).
C38_MarkedOnlyOnBackendFailure ==
    turn.marked => turn.failed = "backend"

\* C39: after a chat request that ended with an error reply the stored
\* history equals the history before the request, whichever step failed.
C39_ErrorRestoresHistory ==
    (turn.pc = "idle" /\ turn.kind = "chat" /\ turn.reply = "error")
        => fsm_history = turn.before

\* C40: the stored chat history never holds more than HISTORY_WINDOW messages.
C40_HistoryWithinWindow ==
    Len(fsm_history) <= HISTORY_WINDOW

====
